---- MODULE Spec2Model ----
(***************************************************************************)
(* A model of the YNAB assistant: the delta-sync cache of YNABClient, the  *)
(* tool error boundary handle_tool_errors and the payee -> category        *)
(* learning store Categorizer.                                             *)
(***************************************************************************)
EXTENDS Integers, Sequences, FiniteSets, TLC

(***************************************************************************)
(* Bounds of the model.                                                    *)
(***************************************************************************)
\* number of distinct item keys a collection of the remote service can hold
MaxKeys == 2
\* the remote service stops changing once its knowledge counter reaches this
MaxKnowledge == 3
\* the number of requests the client makes
MaxCalls == 4
\* the same two bounds where all five collections change and are fetched
WideKnowledge == 2
WideCalls == 2
\* the number of observations a run of the learning store takes in
MaxObs == 5
\* the longest list of transactions one learning pass is given
MaxBatch == 2
\* the most observations the learning store is given in a run of the tools
MaxLearned == 3
MaxRequests == 3
MaxMonths == 3
\* the number of requests of one client that can be in flight at once
MaxFlights == 2
\* the bounds on the remote service's changes and on the client's requests
\* where requests overlap
OverlapKnowledge == 2
OverlapCalls == 3

Keys == 1..MaxKeys
Slots == 1..MaxFlights

(***************************************************************************)
(* Values of the client.                                                   *)
(***************************************************************************)
\* `path not in self._server_knowledge`, and a response without the key
NoKnowledge == -1
\* a falsy `item.get(id_field)`
NoKey == 0

\* the request paths of the getters (one budget)
Paths ==
  {"accounts", "categories", "transactions", "account_transactions",
   "category_transactions", "payees", "months"}

\* the path a whole-collection getter requests
DeltaPaths == {"accounts", "transactions", "payees", "months"}

\* the collections of the remote service
Collections == {"accounts", "categories", "transactions", "payees", "months"}

\* the collection of the remote service a path reads
CollectionOf(path) ==
  IF path \in {"account_transactions", "category_transactions"}
  THEN "transactions" ELSE path

Item(k, v, d) == [key |-> k, ver |-> v, deleted |-> d]

NoExc ==
  [cls |-> "none", status_code |-> 0, error_id |-> "", name |-> "", detail |-> "",
   message |-> "", error_count |-> 0]

\* YNABError.__init__
YNABError(status_code, error_id, name, detail) ==
  [NoExc EXCEPT !.cls = "YNABError", !.status_code = status_code,
                !.error_id = error_id, !.name = name, !.detail = detail,
                !.message = "YNAB API Error"]

\* an exception of another class, propagating as it was raised
Propagated(cls) == [NoExc EXCEPT !.cls = cls, !.message = "str(e)"]

IdleCall ==
  [path |-> "", phase |-> "idle", fn |-> "", use_delta |-> FALSE,
   delta_key |-> FALSE, filtered |-> FALSE, lkos |-> NoKnowledge,
   resp_sk |-> NoKnowledge, resp_items |-> <<>>, full |-> {}]

NoResult ==
  [path |-> "", fn |-> "", use_delta |-> FALSE, filtered |-> FALSE,
   lkos |-> NoKnowledge, resp_sk |-> NoKnowledge, resp_items |-> <<>>,
   full |-> {}, kind |-> "none", list |-> <<>>, exc |-> NoExc]

\* the state of a path the client holds: its token and its table
NoSnapshot ==
  [knowledge |-> NoKnowledge, cache |-> [present |-> FALSE, tbl |-> <<>>]]

\* a request of a client whose requests may overlap, suspended at `await`
IdleFlight ==
  [path |-> "", phase |-> "idle", fn |-> "", lkos |-> NoKnowledge,
   resp_sk |-> NoKnowledge, resp_items |-> <<>>, full |-> {},
   target |-> NoKey, solo |-> FALSE, before |-> NoSnapshot]

NoFinished ==
  [path |-> "", fn |-> "", lkos |-> NoKnowledge, resp_items |-> <<>>,
   full |-> {}, kind |-> "none", list |-> <<>>, exc |-> NoExc,
   target |-> NoKey, solo |-> FALSE, before |-> NoSnapshot,
   after |-> NoSnapshot, evicted |-> {}, overlapped |-> FALSE]

VARIABLES
  server_knowledge,  \* YNABClient._server_knowledge: path -> token
  delta_cache,       \* YNABClient._delta_cache: path -> table of items
  call,              \* the request in flight, suspended at `await`
  lastResult,        \* what the last finished call gave its caller
  srv,               \* the remote service: collection -> key -> state
  srvKnowledge,      \* the remote service's knowledge counter
  lastDeltaT,        \* history: path -> token of the last delta response that carried one
  lastCollT,         \* history: collection -> token of its last whole-collection response
  allCarried,        \* history: path -> every delta response so far carried a token
  tombstoned,        \* history: path -> keys removed by a tombstone, not re-sent since
  ncalls,            \* history: the number of requests made so far
  limits,            \* the bounds of the run: [changes, calls]
  mappings,          \* Categorizer._mappings, in insertion order
  disk,              \* the mappings file
  obs,               \* history: key -> what was observed since it had no mapping
  tool,              \* the tool invocation the host is running
  errorLog,          \* the tools logger.exception was called for
  suggested,         \* the last call of suggest_category: [query, result]
  computed,          \* the last call of a pure function: [fn, args, result]
  wf,                \* the transaction tool in progress, at an await or ended
  inflight,          \* overlapping requests: slot -> the request at its await
  finished,          \* what the last finished overlapping call gave its caller
  malformed          \* the remote service: the versions whose item fails validation

clientVars == <<server_knowledge, delta_cache, call, lastResult>>
srvVars == <<srv, srvKnowledge>>
histVars == <<lastDeltaT, lastCollT, allCarried, tombstoned>>
callVars == <<ncalls, limits>>

deltaVars == <<clientVars, srvVars, histVars, callVars>>
learnVars == <<mappings, disk, obs>>
toolVars == <<tool, errorLog>>
suggestVars == <<suggested>>
pureVars == <<computed>>
workflowVars == <<wf>>
overlapVars == <<inflight, finished, malformed>>

\* what the steps of each part leave alone
notDelta == <<learnVars, toolVars, suggestVars, pureVars, workflowVars,
   overlapVars>>
notLearn == <<deltaVars, toolVars, suggestVars, pureVars, workflowVars,
   overlapVars>>
notTool == <<deltaVars, learnVars, suggestVars, pureVars, workflowVars,
   overlapVars>>
notSuggest == <<deltaVars, learnVars, toolVars, pureVars, workflowVars,
   overlapVars>>
notPure == <<deltaVars, learnVars, toolVars, suggestVars, workflowVars,
   overlapVars>>
notWorkflow == <<deltaVars, learnVars, toolVars, suggestVars, pureVars,
   overlapVars>>
notOverlap ==
  <<call, lastResult, histVars, limits, learnVars, toolVars, suggestVars,
    pureVars, workflowVars>>

vars ==
  <<deltaVars, learnVars, toolVars, suggestVars, pureVars, workflowVars,
    overlapVars>>

SeqToSet(s) == {s[i] : i \in 1..Len(s)}

(***************************************************************************)
(* The remote service.                                                     *)
(***************************************************************************)
RECURSIVE ServerItems(_, _, _)
\* the items of collection c with a key >= k that is in keep, in key order
ServerItems(c, k, keep) ==
  IF k > MaxKeys THEN <<>>
  ELSE (IF k \in keep
        THEN <<Item(k, srv[c][k].ver, srv[c][k].st = "deleted")>>
        ELSE <<>>) \o ServerItems(c, k + 1, keep)

\* a full, non-incremental read: every live item
FullResponse(c) ==
  ServerItems(c, 1, {k \in Keys : srv[c][k].st = "live"})

\* an incremental read: what changed after `since`, tombstones included
ChangedResponse(c, since) ==
  ServerItems(c, 1, {k \in Keys : srv[c][k].st # "none" /\ srv[c][k].ver > since})

\* a scoped read: the live items of the scope sel
ScopedResponse(c, sel) ==
  ServerItems(c, 1, {k \in sel : srv[c][k].st = "live"})

ServerChange(c, k, st) ==
  /\ srvKnowledge < limits.changes
  /\ srvKnowledge' = srvKnowledge + 1
  /\ srv' = [srv EXCEPT ![c][k] = [ver |-> srvKnowledge + 1, st |-> st]]
  /\ UNCHANGED <<clientVars, histVars, callVars, notDelta>>

ServerCreate(c, k) ==
  /\ srv[c][k].st # "live"
  /\ ServerChange(c, k, "live")

ServerUpdate(c, k) ==
  /\ srv[c][k].st = "live"
  /\ ServerChange(c, k, "live")

ServerDelete(c, k) ==
  /\ srv[c][k].st = "live"
  /\ ServerChange(c, k, "deleted")

(***************************************************************************)
(* YNABClient._merge_delta                                                 *)
(***************************************************************************)
\* CachePop that marks the item deleted and keeps it
CachePopMark(cache, item_id) ==
  [i \in 1..Len(cache) |->
     IF cache[i].key = item_id THEN [cache[i] EXCEPT !.deleted = TRUE]
     ELSE cache[i]]

\* cache.pop(item_id, None)
CachePop(cache, item_id) ==
  SelectSeq(cache, LAMBDA c : c.key # item_id)

\* CacheSet that appends without looking for the key
CacheSetAppend(cache, item) == Append(cache, item)

\* cache[item_id] = item: a dict keeps the position of a key it already has
CacheSet(cache, item) ==
  IF \E i \in 1..Len(cache) : cache[i].key = item.key
  THEN [i \in 1..Len(cache) |->
          IF cache[i].key = item.key THEN item ELSE cache[i]]
  ELSE Append(cache, item)

RECURSIVE MergeItems(_, _)
MergeItems(cache, items) ==
  IF items = <<>> THEN cache
  ELSE LET item == Head(items)
           item_id == item.key
       IN IF item_id = NoKey
          THEN MergeItems(cache, Tail(items))
          ELSE IF item.deleted
          THEN MergeItems(CachePop(cache, item_id), Tail(items))
          ELSE MergeItems(CacheSet(cache, item), Tail(items))

\* the table of path after the merge; list(cache.values()) is the table
MergeDelta(path, items) ==
  LET cache == IF delta_cache[path].present THEN delta_cache[path].tbl ELSE <<>>
  IN MergeItems(cache, items)

(***************************************************************************)
(* YNABClient._request, up to the await of the transport                   *)
(***************************************************************************)
Request(fn, path, filtered, use_delta, delta_key) ==
  /\ call.phase = "idle"
  /\ ncalls < limits.calls
  /\ limits' = limits
  /\ ncalls' = ncalls + 1
  /\ call' = [IdleCall EXCEPT
                !.phase = "sent", !.fn = fn, !.path = path,
                !.filtered = filtered, !.use_delta = use_delta,
                !.delta_key = delta_key,
                !.lkos = IF use_delta /\ server_knowledge[path] # NoKnowledge
                         THEN server_knowledge[path] ELSE NoKnowledge]
  /\ lastResult' = NoResult
  /\ UNCHANGED <<server_knowledge, delta_cache, srvVars, histVars, notDelta>>

GetAccounts == Request("get_accounts", "accounts", FALSE, TRUE, TRUE)

GetCategories == Request("get_categories", "categories", FALSE, FALSE, FALSE)

\* GetTransactions that takes a date range for no filter
GetTransactionsDateUnfiltered(since_date, account_id, category_id) ==
  LET path == IF account_id THEN "account_transactions"
              ELSE IF category_id THEN "category_transactions"
              ELSE "transactions"
      has_filter == account_id \/ category_id
  IN Request("get_transactions", path,
             since_date \/ account_id \/ category_id, ~has_filter, ~has_filter)

\* each argument: whether the caller supplied a (truthy) value
GetTransactions(since_date, account_id, category_id) ==
  LET path == IF account_id THEN "account_transactions"
              ELSE IF category_id THEN "category_transactions"
              ELSE "transactions"
      has_filter == since_date \/ account_id \/ category_id
  IN Request("get_transactions", path, has_filter, ~has_filter, ~has_filter)

GetPayees == Request("get_payees", "payees", FALSE, TRUE, TRUE)

GetMonths == Request("get_months", "months", FALSE, TRUE, TRUE)

(***************************************************************************)
(* The remote service answers the request in flight.                       *)
(***************************************************************************)
StatusCodes == {401, 500}
ErrorBodies == {"empty", "error", "no_error", "not_json"}

\* a 2xx answer; carry: the body has "server_knowledge"; sel: a scoped
\* query's scope
Respond(carry, sel) ==
  /\ call.phase = "sent"
  /\ call.filtered \/ sel = Keys
  /\ LET c == CollectionOf(call.path)
         items == IF call.filtered THEN ScopedResponse(c, sel)
                  ELSE IF call.lkos = NoKnowledge THEN FullResponse(c)
                  ELSE ChangedResponse(c, call.lkos)
     IN call' = [call EXCEPT
                   !.phase = "responded",
                   !.resp_sk = IF carry THEN srvKnowledge ELSE NoKnowledge,
                   !.resp_items = items,
                   !.full = SeqToSet(FullResponse(c))]
  /\ UNCHANGED <<server_knowledge, delta_cache, lastResult, srvVars, histVars,
                 callVars, notDelta>>

(***************************************************************************)
(* YNABClient._request, after the await                                    *)
(***************************************************************************)
\* Raise that drops the table and the token of the path
RaiseAndInvalidate(exc) ==
  /\ lastResult' = [NoResult EXCEPT
                      !.kind = "raise", !.use_delta = call.use_delta, !.exc = exc]
  /\ call' = IdleCall
  /\ server_knowledge' = [server_knowledge EXCEPT ![call.path] = NoKnowledge]
  /\ delta_cache' = [delta_cache EXCEPT
                       ![call.path] = [present |-> FALSE, tbl |-> <<>>]]
  /\ UNCHANGED <<srvVars, histVars, callVars, notDelta>>

Raise(exc) ==
  /\ lastResult' = [NoResult EXCEPT
                      !.kind = "raise", !.use_delta = call.use_delta, !.exc = exc]
  /\ call' = IdleCall
  /\ UNCHANGED <<server_knowledge, delta_cache, srvVars, histVars, callVars,
                 notDelta>>

\* except httpx.HTTPStatusError
StatusErrorExc(code, body) ==
  IF body = "not_json" THEN Propagated("JSONDecodeError")
  ELSE IF body = "error"
  THEN YNABError(code, "body_id", "body_name", "body_detail")
  ELSE YNABError(code, ToString(code), "unknown_error", "str(e)")

RaiseStatus(code, body) ==
  /\ call.phase = "sent"
  /\ Raise(StatusErrorExc(code, body))

\* except httpx.TimeoutException
TimeoutExc ==
  YNABError(408, "timeout", "request_timeout",
            "Request to YNAB API timed out. Please try again.")

RaiseTimeout ==
  /\ call.phase = "sent"
  /\ Raise(TimeoutExc)

\* httpx.ConnectError matches no except clause of _request
ConnectExc == Propagated("ConnectError")

RaiseConnect ==
  /\ call.phase = "sent"
  /\ Raise(ConnectExc)

\* StoreKnowledge that keeps the first token of a path
StoreKnowledgeOnce(sk, path, use_delta, data_sk) ==
  IF use_delta /\ data_sk # NoKnowledge /\ sk[path] = NoKnowledge
  THEN [sk EXCEPT ![path] = data_sk] ELSE sk

\* `if use_delta and "server_knowledge" in data`
StoreKnowledge(sk, path, use_delta, data_sk) ==
  IF use_delta /\ data_sk # NoKnowledge
  THEN [sk EXCEPT ![path] = data_sk] ELSE sk

DeletedKeys(items) == {items[i].key : i \in {j \in 1..Len(items) : items[j].deleted}}
LiveKeys(items) == {items[i].key : i \in {j \in 1..Len(items) : ~items[j].deleted}}

Receive ==
  /\ call.phase = "responded"
  /\ LET path == call.path
         merging == call.use_delta /\ call.delta_key
         table == MergeDelta(path, call.resp_items)
         list == IF merging THEN table ELSE call.resp_items
         carried == call.resp_sk # NoKnowledge
     IN /\ server_knowledge' =
             StoreKnowledge(server_knowledge, path, call.use_delta, call.resp_sk)
        /\ delta_cache' =
             IF merging
             THEN [delta_cache EXCEPT ![path] = [present |-> TRUE, tbl |-> table]]
             ELSE delta_cache
        /\ lastResult' = [NoResult EXCEPT
                            !.kind = "ok", !.fn = call.fn, !.path = path,
                            !.use_delta = call.use_delta,
                            !.filtered = call.filtered, !.lkos = call.lkos,
                            !.resp_sk = call.resp_sk,
                            !.resp_items = call.resp_items,
                            !.list = list, !.full = call.full]
        /\ lastDeltaT' = IF call.use_delta /\ carried
                         THEN [lastDeltaT EXCEPT ![path] = call.resp_sk]
                         ELSE lastDeltaT
        /\ lastCollT' = IF ~call.filtered /\ carried
                        THEN [lastCollT EXCEPT ![CollectionOf(path)] = call.resp_sk]
                        ELSE lastCollT
        /\ allCarried' = IF call.use_delta /\ ~carried
                         THEN [allCarried EXCEPT ![path] = FALSE]
                         ELSE allCarried
        /\ tombstoned' =
             IF call.use_delta
             THEN [tombstoned EXCEPT ![path] =
                     (@ \cup DeletedKeys(call.resp_items))
                       \ LiveKeys(call.resp_items)]
             ELSE tombstoned
  /\ call' = IdleCall
  /\ UNCHANGED <<srvVars, callVars, notDelta>>

(***************************************************************************)
(* The delta-sync client against the remote service.                       *)
(***************************************************************************)
(***************************************************************************)
(* Categorizer: the payee -> category learning store.  A string is a       *)
(* sequence of characters; a falsy value (None or "") is the empty one.    *)
(* The names of accounts and categories are written in longer pieces, each *)
(* standing for the run of characters it spells.                           *)
(***************************************************************************)
Whitespace == {" "}

\* str.lower, one character or piece
LowerChar(ch) ==
  CASE ch = "A" -> "a"
    [] ch = "B" -> "b"
    [] ch \in {"Inflow", "INFLOW"} -> "inflow"
    [] ch = "Ready to Assign" -> "ready to assign"
    [] ch = "Cash" -> "cash"
    [] ch = "Tracker" -> "tracker"
    [] ch = "Rent" -> "rent"
    [] ch = "Chase" -> "chase"
    [] ch = "Ally" -> "ally"
    [] ch \in {"Checking", "CHECKING"} -> "checking"
    [] ch = "Savings" -> "savings"
    [] OTHER -> ch

RECURSIVE LStrip(_)
LStrip(s) ==
  IF s # <<>> /\ Head(s) \in Whitespace THEN LStrip(Tail(s)) ELSE s

RECURSIVE RStrip(_)
RStrip(s) ==
  IF s # <<>> /\ s[Len(s)] \in Whitespace
  THEN RStrip(SubSeq(s, 1, Len(s) - 1)) ELSE s

\* str.strip
Strip(s) == RStrip(LStrip(s))

\* str.lower
Lower(s) == [i \in 1..Len(s) |-> LowerChar(s[i])]

\* PayeeKey that only trims
PayeeKeyCased(payee) == Strip(payee)

\* key = payee.strip().lower()
PayeeKey(payee) == Lower(Strip(payee))

\* the count add_mapping pins an entry at
ManualCount == 100

Entry(key, category_id, category_name, count) ==
  [key |-> key, category_id |-> category_id,
   category_name |-> category_name, count |-> count]

\* key in self._mappings
HasKey(m, key) == \E i \in 1..Len(m) : m[i].key = key

\* self._mappings[key]
Lookup(m, key) == m[CHOOSE i \in 1..Len(m) : m[i].key = key]

\* self._mappings[key] = entry: a dict keeps the position of a key it has
SetEntry(m, e) ==
  IF HasKey(m, e.key)
  THEN [i \in 1..Len(m) |-> IF m[i].key = e.key THEN e ELSE m[i]]
  ELSE Append(m, e)

\* SeedEntry that counts the first sight itself
SeedEntryCounted(key, cat_id, cat_name) == Entry(key, cat_id, cat_name, 1)

\* the entry a payee without a mapping is given before the vote
SeedEntry(key, cat_id, cat_name) == Entry(key, cat_id, cat_name, 0)

\* ShouldFlip that gives way one vote early
ShouldFlipAtOne(count) == count <= 1

\* ShouldFlip that never gives way
ShouldFlipNever(count) == FALSE

\* ShouldFlip that waits for a negative count
ShouldFlipBelowZero(count) == count < 0

\* `if existing["count"] <= 0`
ShouldFlip(count) == count <= 0

\* one turn of the loop of learn_from_transactions
LearnOne(m, txn) ==
  LET payee == txn.payee_name
      cat_id == txn.category_id
      cat_name == txn.category_name
  IN IF payee = <<>> \/ cat_id = "" THEN m
     ELSE LET key == PayeeKey(payee)
              seeded == IF ~HasKey(m, key)
                        THEN SetEntry(m, SeedEntry(key, cat_id, cat_name))
                        ELSE m
              existing == Lookup(seeded, key)
          IN IF cat_id = existing.category_id
             THEN SetEntry(seeded, [existing EXCEPT !.count = @ + 1])
             ELSE IF ShouldFlip(existing.count - 1)
             THEN SetEntry(seeded, Entry(key, cat_id, cat_name, 1))
             ELSE SetEntry(seeded, [existing EXCEPT !.count = @ - 1])

RECURSIVE LearnAll(_, _)
LearnAll(m, txns) ==
  IF txns = <<>> THEN m
  ELSE LearnAll(LearnOne(m, Head(txns)), Tail(txns))

(***************************************************************************)
(* The mappings file: json.dumps on _save, json.loads on _load.  A JSON    *)
(* text is the sequence of its members, each a name and the text of its    *)
(* value; a string is written between quotes, a number in decimal digits.  *)
(***************************************************************************)
Digits == <<"0", "1", "2", "3", "4", "5", "6", "7", "8", "9">>

RECURSIVE NatToDigits(_)
NatToDigits(n) ==
  IF n < 10 THEN <<Digits[n + 1]>>
  ELSE NatToDigits(n \div 10) \o <<Digits[(n % 10) + 1]>>

\* an int as json.dumps writes it
IntToText(n) == IF n < 0 THEN <<"-">> \o NatToDigits(-n) ELSE NatToDigits(n)

DigitValue(ch) == CHOOSE d \in 0..9 : Digits[d + 1] = ch

RECURSIVE DigitsToNat(_)
DigitsToNat(s) ==
  IF s = <<>> THEN 0
  ELSE DigitsToNat(SubSeq(s, 1, Len(s) - 1)) * 10 + DigitValue(s[Len(s)])

\* an int as json.loads reads it
TextToInt(s) == IF Head(s) = "-" THEN -DigitsToNat(Tail(s)) ELSE DigitsToNat(s)

\* a string of characters, and a whole string, between quotes
Quoted(chars) == <<"\"">> \o chars \o <<"\"">>
QuotedWhole(str) == <<"\"", str, "\"">>
Unquoted(quoted) == SubSeq(quoted, 2, Len(quoted) - 1)
UnquotedWhole(quoted) == quoted[2]

Member(name, value) == [name |-> name, value |-> value]

\* json.dumps(self._mappings): the keys in the order of the dict
Dumps(m) ==
  [i \in 1..Len(m) |->
     Member(Quoted(m[i].key),
            <<Member(Quoted(<<"category_id">>), QuotedWhole(m[i].category_id)),
              Member(Quoted(<<"category_name">>),
                     QuotedWhole(m[i].category_name)),
              Member(Quoted(<<"count">>), IntToText(m[i].count))>>)]

\* object[name] of a parsed JSON object
MemberValue(object, name) ==
  object[CHOOSE i \in 1..Len(object) : object[i].name = Quoted(<<name>>)].value

\* json.loads of the text of a mappings file
Loads(text) ==
  [i \in 1..Len(text) |->
     Entry(Unquoted(text[i].name),
           UnquotedWhole(MemberValue(text[i].value, "category_id")),
           UnquotedWhole(MemberValue(text[i].value, "category_name")),
           TextToInt(MemberValue(text[i].value, "count")))]

\* Categorizer._save
Save(m) == [text |-> Dumps(m), exists |-> TRUE]

\* Categorizer._load into the empty table of a new store: a file that is
\* missing leaves it empty
Load(file) == IF file.exists THEN Loads(file.text) ELSE <<>>

(***************************************************************************)
(* The inputs of the learning store, and the history its properties are    *)
(* stated on.                                                              *)
(***************************************************************************)
PayeeInputs == {<<"A">>, <<" ", "a", " ">>, <<"B">>, <<>>}

\* a payee whose name contains the names of two others
LongPayee == <<"A", "B">>
CatIds == {"c1", "c2"}
CatName(cat_id) == IF cat_id = "c1" THEN "Groceries" ELSE "Dining"

\* transactions that name a payee and a category, one without a category
\* name, and the two that are skipped: no payee, no category
TxnInputs ==
  {[category_id |-> c, category_name |-> CatName(c), payee_name |-> p] :
     p \in PayeeInputs \ {<<>>}, c \in CatIds}
  \cup {[category_id |-> "c1", category_name |-> "", payee_name |-> <<"B">>],
        [category_id |-> "c1", category_name |-> "Groceries", payee_name |-> <<>>],
        [category_id |-> "", category_name |-> "", payee_name |-> <<"A">>]}

Batches == UNION {[1..n -> TxnInputs] : n \in 1..MaxBatch}

\* the trimmed, lower-cased form of each payee input, written out
TrimmedLower(payee) ==
  CASE payee = <<"A">> -> <<"a">>
    [] payee = <<" ", "a", " ">> -> <<"a">>
    [] payee = <<"B">> -> <<"b">>
    [] payee = <<>> -> <<>>
    [] payee = LongPayee -> <<"a", "b">>

LearnKeys == {TrimmedLower(p) : p \in PayeeInputs \cup {LongPayee}}

\* an observation: a transaction that names a payee and a category
IsObservation(txn) == txn.payee_name # <<>> /\ txn.category_id # ""

RECURSIVE ObserveAll(_, _)
ObserveAll(o, txns) ==
  IF txns = <<>> THEN o
  ELSE LET txn == Head(txns)
           seen == IF IsObservation(txn)
                   THEN [o EXCEPT ![TrimmedLower(txn.payee_name)] =
                                     Append(@, txn.category_id)]
                   ELSE o
       IN ObserveAll(seen, Tail(txns))

RECURSIVE ObsTotal(_, _)
ObsTotal(o, keys) ==
  IF keys = {} THEN 0
  ELSE LET key == CHOOSE k \in keys : TRUE
       IN Len(o[key]) + ObsTotal(o, keys \ {key})

LearnFromTransactions(txns) ==
  /\ ObsTotal(ObserveAll(obs, txns), LearnKeys) <= MaxObs
  /\ mappings' = LearnAll(mappings, txns)
  /\ disk' = Save(mappings')
  /\ obs' = ObserveAll(obs, txns)
  /\ UNCHANGED notLearn

AddMapping(payee_name, category_id, category_name) ==
  /\ ObsTotal(obs, LearnKeys) < MaxObs
  /\ mappings' = SetEntry(mappings,
                          Entry(PayeeKey(payee_name), category_id,
                                category_name, ManualCount))
  /\ disk' = Save(mappings')
  /\ obs' = [obs EXCEPT ![TrimmedLower(payee_name)] = <<"manual">>]
  /\ UNCHANGED notLearn

\* Clear that empties the table in memory alone
ClearUnsaved ==
  /\ mappings' = <<>>
  /\ obs' = [key \in LearnKeys |-> <<>>]
  /\ UNCHANGED <<disk, notLearn>>

Clear ==
  /\ mappings' = <<>>
  /\ disk' = Save(mappings')
  /\ obs' = [key \in LearnKeys |-> <<>>]
  /\ UNCHANGED notLearn

\* Categorizer.__init__ of a new store on the same file
Reopen ==
  /\ mappings' = Load(disk)
  /\ UNCHANGED <<disk, obs, notLearn>>

(***************************************************************************)
(* suggest_category: the lookup of a payee in the learned mappings.        *)
(***************************************************************************)
\* `a in b` of two strings
IsSubstring(a, b) ==
  \E i \in 0..(Len(b) - Len(a)) : SubSeq(b, i + 1, i + Len(a)) = a

\* what suggest_category returns: None, or the category of a mapping
None == [category_id |-> "", category_name |-> "", found |-> FALSE]
Suggestion(mapping) ==
  [category_id |-> mapping.category_id,
   category_name |-> mapping.category_name, found |-> TRUE]

\* `if known_key in key or key in known_key`
PartialMatch(known_key, key) ==
  IsSubstring(known_key, key) \/ IsSubstring(key, known_key)

\* PartialScan that keeps looking and returns the last match
RECURSIVE PartialScanLast(_, _)
PartialScanLast(m, key) ==
  IF m = <<>> THEN None
  ELSE IF PartialMatch(m[Len(m)].key, key) THEN Suggestion(m[Len(m)])
  ELSE PartialScanLast(SubSeq(m, 1, Len(m) - 1), key)

\* the loop over self._mappings.items(): the first match returns
RECURSIVE PartialScan(_, _)
PartialScan(m, key) ==
  IF m = <<>> THEN None
  ELSE IF PartialMatch(Head(m).key, key) THEN Suggestion(Head(m))
  ELSE PartialScan(Tail(m), key)

\* SuggestCategory without the exact lookup
SuggestCategoryPartialOnly(m, payee_name) ==
  IF payee_name = <<>> THEN None
  ELSE PartialScan(m, PayeeKey(payee_name))

\* Categorizer.suggest_category on the table m
SuggestCategory(m, payee_name) ==
  IF payee_name = <<>> THEN None
  ELSE LET key == PayeeKey(payee_name)
       IN IF HasKey(m, key) THEN Suggestion(Lookup(m, key))
          ELSE PartialScan(m, key)

NoSuggestion == [query |-> <<>>, called |-> FALSE, result |-> None]

CallSuggestCategory(payee_name) ==
  /\ suggested' = [query |-> payee_name, called |-> TRUE,
                   result |-> SuggestCategory(mappings, payee_name)]
  /\ UNCHANGED notSuggest

(***************************************************************************)
(* The pure functions of the core.  Each call is one step that records the *)
(* function, its arguments and what it returned or raised.  Money is in    *)
(* milliunits: a dollar amount rounded to cents is a multiple of 10.       *)
(***************************************************************************)
NoComputation == [fn |-> "none", result |-> <<>>, args |-> <<>>]

Compute(fn, args, result) ==
  /\ computed' = [fn |-> fn, result |-> result, args |-> args]
  /\ UNCHANGED notPure

Category(id, name, balance, hidden, deleted) ==
  [deleted |-> deleted, name |-> name, id |-> id, balance |-> balance,
   hidden |-> hidden]

CategoryGroup(name, hidden, deleted, categories) ==
  [deleted |-> deleted, name |-> name, hidden |-> hidden,
   categories |-> categories]

(***************************************************************************)
(* Binary floating point.  A dollar amount of whole cents enters as the    *)
(* double nearest to it.  A double is written as the cents it stands for   *)
(* and what rounding added to them: its value is                           *)
(* cents/100 + err/(100 * 2^59).  Every double between 2^-7 and 2^12 is a  *)
(* multiple of 2^-59, so err is a whole number; sums and differences are   *)
(* rounded to 53 bits, ties to even, as the hardware does.                 *)
(***************************************************************************)
Float(cents, err) == [cents |-> cents, err |-> err]

\* 2^n, by squaring
RECURSIVE Pow2(_)
Pow2(n) ==
  IF n = 0 THEN 1
  ELSE IF n % 2 = 1 THEN 2 * Pow2(n - 1)
  ELSE LET half == Pow2(n \div 2) IN half * half

\* 2^n modulo m, by squaring
RECURSIVE Pow2Mod(_, _)
Pow2Mod(n, m) ==
  IF n = 0 THEN 1 % m
  ELSE IF n % 2 = 1 THEN (2 * Pow2Mod(n - 1, m)) % m
  ELSE LET half == Pow2Mod(n \div 2, m) IN (half * half) % m

\* units/den + err/(den * 2^59) >= 2^k, for units > 0
AtLeastPow2(den, units, err, k) ==
  IF k >= 0
  THEN units > den * Pow2(k) \/ (units = den * Pow2(k) /\ err >= 0)
  ELSE units * Pow2(-k) > den \/ (units * Pow2(-k) = den /\ err >= 0)

\* the exponent of a positive value: the largest k >= from with 2^k below it
RECURSIVE Binade(_, _, _, _)
Binade(den, units, err, from) ==
  IF AtLeastPow2(den, units, err, from + 1)
  THEN Binade(den, units, err, from + 1)
  ELSE from

\* the double nearest to the positive exact value
\* units/den + err/(den * 2^59): a multiple of 2^(k - 52), which is `ulp`
\* in units of 1/(den * 2^59)
RoundPositiveIn(den, units, err) ==
  LET k == Binade(den, units, err, -7)
      scale == Pow2(k + 7)
      ulp == den * scale
      rest == (scale * (((units % den) * Pow2Mod(52 - k, den)) % den) + err)
                % ulp
      rest2 == (scale * (((units % (2 * den)) * Pow2Mod(52 - k, 2 * den))
                          % (2 * den)) + err) % (2 * ulp)
      down == Float(units, err - rest)
      up == Float(units, err + ulp - rest)
  IN IF rest = 0 THEN Float(units, err)
     ELSE IF 2 * rest < ulp THEN down
     ELSE IF 2 * rest > ulp THEN up
     ELSE IF rest2 < ulp THEN down ELSE up

\* the same for a value in cents
RoundPositive(cents, err) == RoundPositiveIn(100, cents, err)

FNeg(x) == Float(-x.cents, -x.err)

\* the double nearest to an exact value; a value below one cent that comes
\* from doubles of this range is a double itself
RoundToDouble(cents, err) ==
  IF cents = 0 THEN Float(0, err)
  ELSE IF cents < 0 THEN FNeg(RoundPositive(-cents, -err))
  ELSE RoundPositive(cents, err)

\* the float a dollar amount of whole cents is read as
ToDouble(cents) == RoundToDouble(cents, 0)

\* x + y and x - y of two floats
FAdd(x, y) == RoundToDouble(x.cents + y.cents, x.err + y.err)
FSub(x, y) == RoundToDouble(x.cents - y.cents, x.err - y.err)

\* x > y of two floats
FGreater(x, y) == x.cents > y.cents \/ (x.cents = y.cents /\ x.err > y.err)

\* abs(x)
FAbs(x) == IF FGreater(Float(0, 0), x) THEN FNeg(x) ELSE x

\* min(x, y) of two floats
FMin(x, y) == IF FGreater(x, y) THEN y ELSE x

_INTERNAL_GROUPS == {"Internal Master Category", "Hidden Categories"}

\* the exponent of milli/1000, for milli > 0
RECURSIVE MilliBinade(_, _)
MilliBinade(milli, from) ==
  IF (IF from + 1 >= 0 THEN milli >= 1000 * Pow2(from + 1)
      ELSE milli * Pow2(-(from + 1)) >= 1000)
  THEN MilliBinade(milli, from + 1)
  ELSE from

\* milliunits_to_dollars(milli) is a double above milli/1000: the division
\* rounded up
DollarsAbove(milli) ==
  ((milli % 1000) * Pow2Mod(52 - MilliBinade(milli, -10), 1000)) % 1000 > 500

\* round(milliunits_to_dollars(milli), 2) of milli >= 0, in milliunits.  An
\* amount that ends in 5 milliunits goes the way the division rounded it;
\* when it is a double itself (a multiple of 1/8) it goes to the even cent
Round2Positive(milli) ==
  LET down == (milli \div 10) * 10
      rest == milli - down
  IN IF rest < 5 THEN down
     ELSE IF rest > 5 THEN down + 10
     ELSE IF milli % 125 = 0
          THEN IF (down \div 10) % 2 = 0 THEN down ELSE down + 10
          ELSE IF DollarsAbove(milli) THEN down + 10 ELSE down

\* round(milliunits_to_dollars(balance), 2), in milliunits
Round2(milli) ==
  IF milli < 0 THEN -Round2Positive(-milli) ELSE Round2Positive(milli)

\* round(x, 2) of a float, in milliunits: the cents it stands for
RoundFloat2(x) == 10 * x.cents

\* the float of an amount of whole cents given in milliunits
FromAmount(amount) == ToDouble(amount \div 10)

CategoryBalance(cat) ==
  [name |-> cat.name, category_id |-> cat.id, amount |-> Round2(cat.balance)]

\* the categories analyze_overspending looks at, in input order
RECURSIVE VisibleCategories(_)
VisibleCategories(groups) ==
  IF groups = <<>> THEN <<>>
  ELSE LET group == Head(groups)
       IN (IF group.name \in _INTERNAL_GROUPS \/ group.hidden \/ group.deleted
           THEN <<>>
           ELSE SelectSeq(group.categories,
                          LAMBDA cat : ~cat.hidden /\ ~cat.deleted))
          \o VisibleCategories(Tail(groups))

\* SortAscending that leaves the list as it was built
KeepOrder(list) == list

\* list.sort(key = amount): stable, ascending
RECURSIVE SortAscending(_)
SortAscending(list) ==
  IF list = <<>> THEN <<>>
  ELSE LET rest == SortAscending(Tail(list))
           before == SelectSeq(rest, LAMBDA c : c.amount < Head(list).amount)
           after == SelectSeq(rest, LAMBDA c : c.amount >= Head(list).amount)
       IN before \o <<Head(list)>> \o after

\* list.sort(key = amount, reverse = True): stable, descending
RECURSIVE SortDescending(_)
SortDescending(list) ==
  IF list = <<>> THEN <<>>
  ELSE LET rest == SortDescending(Tail(list))
           before == SelectSeq(rest, LAMBDA c : c.amount > Head(list).amount)
           after == SelectSeq(rest, LAMBDA c : c.amount <= Head(list).amount)
       IN before \o <<Head(list)>> \o after

Min(a, b) == IF a <= b THEN a ELSE b

MoveSuggestion(source, deficit, amount) ==
  [amount |-> amount,
   from_category |-> source.name, from_category_id |-> source.category_id,
   to_category |-> deficit.name, to_category_id |-> deficit.category_id]
(***************************************************************************)
\* Debit that leaves the source whole
DebitNothing(avail, move) == avail

\* `source_remaining[source.category_id] = avail - move`
Debit(avail, move) == FSub(avail, move)

\* needed <= 0.005 of what is left of a deficit: less than a cent
AtMostHalfCent(needed) == needed.cents < 1

\* the loop over the sources for one deficit, from the sources `srcs` on;
\* acc holds the suggestions so far and source_remaining
RECURSIVE CoverDeficit(_, _, _, _)
CoverDeficit(deficit, srcs, needed, acc) ==
  IF srcs = <<>> THEN acc
  ELSE LET source == Head(srcs)
           avail == acc.source_remaining[source.category_id]
           move == FMin(needed, avail)
           moved ==
             [source_remaining |->
                [acc.source_remaining EXCEPT ![source.category_id] =
                                               Debit(avail, move)],
              suggestions |->
                Append(acc.suggestions,
                       MoveSuggestion(source, deficit, RoundFloat2(move)))]
       IN IF ~FGreater(avail, Float(0, 0))
          THEN CoverDeficit(deficit, Tail(srcs), needed, acc)
          ELSE IF AtMostHalfCent(FSub(needed, move)) THEN moved
          ELSE CoverDeficit(deficit, Tail(srcs), FSub(needed, move), moved)

\* the loop over the overspent categories
RECURSIVE CoverAll(_, _, _)
CoverAll(overspent, sources, acc) ==
  IF overspent = <<>> THEN acc
  ELSE CoverAll(Tail(overspent), sources,
                CoverDeficit(Head(overspent), sources,
                             FAbs(FromAmount(Head(overspent).amount)),
                             acc))

RECURSIVE SumAmounts(_)
SumAmounts(list) ==
  IF list = <<>> THEN 0 ELSE Head(list).amount + SumAmounts(Tail(list))

\* analyze_overspending
AnalyzeOverspending(groups) ==
  LET cats == VisibleCategories(groups)
      Balances(list) == [i \in 1..Len(list) |-> CategoryBalance(list[i])]
      overspent ==
        SortAscending(Balances(SelectSeq(cats, LAMBDA c : c.balance < -5)))
      sources ==
        SortDescending(Balances(SelectSeq(cats, LAMBDA c : c.balance > 5)))
      start ==
        [source_remaining |->
           [id \in {sources[i].category_id : i \in 1..Len(sources)} |->
              FromAmount(sources[CHOOSE i \in 1..Len(sources) :
                                   /\ sources[i].category_id = id
                                   /\ \A j \in (i + 1)..Len(sources) :
                                        sources[j].category_id # id].amount)],
         suggestions |-> <<>>]
  IN [suggestions |-> CoverAll(overspent, sources, start).suggestions,
      overspent |-> overspent, sources |-> sources,
      total_overspent |-> Round2(-SumAmounts(overspent))]

(***************************************************************************)
(* resolvers: from a name the caller typed to an account or a category.    *)
(* A resolver returns the entity or raises ResolverError.                  *)
(***************************************************************************)
Found(entity) == [kind |-> "return", value |-> entity]

\* raise ResolverError(entity_type, query, available)
NotFound(entity_type, query, available) ==
  [kind |-> "raise", query |-> query, entity_type |-> entity_type,
   available |-> available]

\* list[0] of a list that is not empty
First(list) == Head(list)

Account(id, name, type, on_budget, closed) ==
  [name |-> name, id |-> id, type |-> type, on_budget |-> on_budget,
   closed |-> closed]

\* OpenAccounts that keeps the closed accounts
AllAccounts(accounts) == accounts

\* open_accounts = [a for a in accounts if not a.closed]
OpenAccounts(accounts) == SelectSeq(accounts, LAMBDA a : ~a.closed)

\* resolve_account; no name is the empty name
ResolveAccount(accounts, name) ==
  LET open_accounts == OpenAccounts(accounts)
      named == SelectSeq(open_accounts,
                         LAMBDA a : IsSubstring(Lower(name), Lower(a.name)))
      checking == SelectSeq(open_accounts,
                            LAMBDA a : a.on_budget /\ a.type = "checking")
      on_budget == SelectSeq(open_accounts, LAMBDA a : a.on_budget)
  IN IF name # <<>>
     THEN IF named # <<>> THEN Found(First(named))
          ELSE NotFound("account", name,
                        [i \in 1..Len(open_accounts) |-> open_accounts[i].name])
     ELSE IF checking # <<>> THEN Found(First(checking))
     ELSE IF on_budget # <<>> THEN Found(First(on_budget))
     ELSE NotFound("account", <<"<default>">>, <<>>)

\* the categories resolve_category may return, in the order it meets them
RECURSIVE ResolvableCategories(_)
ResolvableCategories(groups) ==
  IF groups = <<>> THEN <<>>
  ELSE LET group == Head(groups)
       IN (IF group.name \in _INTERNAL_GROUPS \/ group.hidden \/ group.deleted
           THEN <<>>
           ELSE SelectSeq(group.categories,
                          LAMBDA cat : ~cat.hidden /\ ~cat.deleted))
          \o ResolvableCategories(Tail(groups))

\* resolve_category
ResolveCategory(groups, name) ==
  LET matching == SelectSeq(ResolvableCategories(groups),
                            LAMBDA cat : IsSubstring(Lower(name), Lower(cat.name)))
  IN IF matching # <<>> THEN Found(First(matching))
     ELSE NotFound("category", name, <<>>)

_inflow_name == <<"Inflow", ":", " ", "Ready to Assign">>

_inflow_aliases ==
  {<<"inflow">>, <<"inflow", ":", " ", "ready to assign">>,
   <<"ready to assign">>}

\* IsInflowAlias that looks for the word in the name
MentionsInflow(name) == IsSubstring(<<"inflow">>, Lower(Strip(name)))

\* `name.strip().lower() in _inflow_aliases`
IsInflowAlias(name) == Lower(Strip(name)) \in _inflow_aliases

RECURSIVE AllCategories(_)
AllCategories(groups) ==
  IF groups = <<>> THEN <<>>
  ELSE Head(groups).categories \o AllCategories(Tail(groups))

\* resolve_category_or_inflow
ResolveCategoryOrInflow(groups, name) ==
  LET inflow == SelectSeq(AllCategories(groups),
                          LAMBDA cat : cat.name = _inflow_name /\ ~cat.deleted)
  IN IF IsInflowAlias(name) /\ inflow # <<>> THEN Found(First(inflow))
     ELSE ResolveCategory(groups, name)

(***************************************************************************)
(* The transaction tools of the server.  A value that may be None is the   *)
(* empty sequence or the sequence of the one value.  A dollar amount is a  *)
(* whole number of cents.                                                  *)
(***************************************************************************)
NoValue == <<>>
Some(value) == <<value>>

\* `value or default` of a string that may be None
OrText(opt, default) ==
  IF opt = NoValue \/ opt[1] = <<>> THEN default ELSE opt[1]

Abs(n) == IF n < 0 THEN -n ELSE n

\* dollars_to_milliunits of an amount in cents
DollarsToMilliunits(cents) == cents * 10

\* a transaction as the service sends it; the fields it leaves out take the
\* defaults of the schema
Transaction(id, date, amount, memo, payee_name, category_id, category_name, approved, deleted) ==
  [deleted |-> deleted, category_id |-> category_id,
   category_name |-> category_name, payee_name |-> payee_name, id |-> id,
   amount |-> amount, date |-> date, memo |-> memo, approved |-> approved,
   cleared |-> "uncleared", flag_color |-> NoValue]

RECURSIVE PadLeft(_, _)
PadLeft(digits, width) ==
  IF Len(digits) >= width THEN digits ELSE PadLeft(<<"0">> \o digits, width)

\* the digits of n, at least `width` of them
ZeroPadded(n, width) == PadLeft(NatToDigits(n), width)

\* the format `,` of a whole number: groups of three digits
RECURSIVE Grouped(_)
Grouped(n) ==
  IF n < 1000 THEN NatToDigits(n)
  ELSE Grouped(n \div 1000) \o <<",">> \o ZeroPadded(n % 1000, 3)

\* f"{abs(milliunits_to_dollars(amount)):,.2f}"
AmountStr(amount) ==
  LET cents == (Abs(amount) + 5) \div 10
  IN Grouped(cents \div 100) \o <<".">> \o ZeroPadded(cents % 100, 2)

\* the test both transaction searches make of one transaction
MatchesQuery(q, t) ==
  \/ IsSubstring(q, Lower(OrText(t.payee_name, <<>>)))
  \/ IsSubstring(q, Lower(OrText(t.memo, <<>>)))
  \/ IsSubstring(q, t.date)
  \/ IsSubstring(q, AmountStr(t.amount))

\* the first element of a list, or None
FirstOrNone(list) == IF list = <<>> THEN NoValue ELSE Some(Head(list))

FilterUncategorizedTransactions(transactions) ==
  SelectSeq(transactions, LAMBDA t : ~t.deleted /\ t.category_id = NoValue)

FilterTransactionByDescription(transactions, query) ==
  IF Lower(query) = <<>> THEN NoValue
  ELSE FirstOrNone(SelectSeq(transactions,
         LAMBDA t : ~t.deleted /\ MatchesQuery(Lower(query), t)))

FieldChange(field_name, old_value, new_value) ==
  [field_name |-> field_name, old_value |-> old_value,
   new_value |-> new_value]

\* one key of the payload with the change it is listed as
Changed(key, value, field_name, old_value, new_value) ==
  <<[key |-> key, value |-> value,
     change |-> FieldChange(field_name, old_value, new_value)]>>

\* the candidates of compute_transaction_updates, each one None by default
Candidates(memo, category_id, category_name, payee_name, date, amount_milliunits, flag_color, cleared, approved) ==
  [category_id |-> category_id, category_name |-> category_name,
   payee_name |-> payee_name, date |-> date, memo |-> memo,
   approved |-> approved, cleared |-> cleared, flag_color |-> flag_color,
   amount_milliunits |-> amount_milliunits]

\* str(bool)
BoolStr(b) == IF b THEN "True" ELSE "False"

\* every candidate counts as a change
DiffersAlways(candidate, current) == TRUE

\* the test `candidate != current` of one field
Differs(candidate, current) == candidate # current

\* compute_transaction_updates: the payload in the order of its keys, and
\* the changes
ComputeTransactionUpdates(transaction, c) ==
  LET memo ==
        IF c.memo # NoValue /\ Differs(c.memo[1], OrText(transaction.memo, <<>>))
        THEN Changed("memo", c.memo[1], "Memo",
                     OrText(transaction.memo, <<"(none)">>),
                     OrText(c.memo, <<"(cleared)">>))
        ELSE <<>>
      category ==
        IF c.category_id # NoValue /\ Differs(c.category_id, transaction.category_id)
        THEN Changed("category_id", c.category_id[1], "Category",
                     OrText(transaction.category_name, <<"Uncategorized">>),
                     OrText(c.category_name, <<c.category_id[1]>>))
        ELSE <<>>
      payee ==
        IF /\ c.payee_name # NoValue
           /\ Differs(c.payee_name[1], OrText(transaction.payee_name, <<>>))
        THEN Changed("payee_name", c.payee_name[1], "Payee",
                     OrText(transaction.payee_name, <<"(none)">>),
                     c.payee_name[1])
        ELSE <<>>
      date ==
        IF c.date # NoValue /\ Differs(c.date[1], transaction.date)
        THEN Changed("date", c.date[1], "Date", transaction.date, c.date[1])
        ELSE <<>>
      amount ==
        IF /\ c.amount_milliunits # NoValue
           /\ Differs(c.amount_milliunits[1], transaction.amount)
        THEN Changed("amount", c.amount_milliunits[1], "Amount",
                     <<"$">> \o AmountStr(transaction.amount),
                     <<"$">> \o AmountStr(c.amount_milliunits[1]))
        ELSE <<>>
      flag ==
        IF c.flag_color # NoValue /\ Differs(c.flag_color, transaction.flag_color)
        THEN Changed("flag_color", c.flag_color[1], "Flag",
                     IF transaction.flag_color # NoValue
                     THEN transaction.flag_color[1] ELSE "(none)",
                     c.flag_color[1])
        ELSE <<>>
      cleared ==
        IF c.cleared # NoValue /\ Differs(c.cleared[1], transaction.cleared)
        THEN Changed("cleared", c.cleared[1], "Cleared",
                     transaction.cleared, c.cleared[1])
        ELSE <<>>
      approved ==
        IF c.approved # NoValue /\ Differs(c.approved[1], transaction.approved)
        THEN Changed("approved", c.approved[1], "Approved",
                     BoolStr(transaction.approved), BoolStr(c.approved[1]))
        ELSE <<>>
      all == memo \o category \o payee \o date \o amount \o flag \o cleared
             \o approved
  IN [changes |-> [i \in 1..Len(all) |-> all[i].change],
      updates |-> [i \in 1..Len(all) |->
                     [key |-> all[i].key, value |-> all[i].value]]]

\* BulkTransactionUpdateInput
BulkTransactionUpdateInput(transaction_description, category_name, memo, flag_color, cleared, approved) ==
  [category_name |-> category_name, memo |-> memo, approved |-> approved,
   cleared |-> cleared, flag_color |-> flag_color,
   transaction_description |-> transaction_description]

\* a dict is the list of its items in the order of insertion
DictHas(d, key) == \E i \in 1..Len(d) : d[i].key = key

DictGet(d, key) == d[CHOOSE i \in 1..Len(d) : d[i].key = key].value

\* d[key] = value: a key the dict has keeps its place
RECURSIVE DictSet(_, _, _)
DictSet(d, key, value) ==
  IF d = <<>> THEN <<[key |-> key, value |-> value]>>
  ELSE IF Head(d).key = key
       THEN <<[key |-> key, value |-> value]>> \o Tail(d)
       ELSE <<Head(d)>> \o DictSet(Tail(d), key, value)

\* d.update(other)
RECURSIVE DictUpdate(_, _)
DictUpdate(d, other) ==
  IF other = <<>> THEN d
  ELSE DictUpdate(DictSet(d, Head(other).key, Head(other).value),
                  Tail(other))

\* the update of one request for the transaction it matched
ItemUpdate(transaction, category_id, item) ==
  <<[key |-> "id", value |-> transaction.id]>>
  \o (IF category_id # NoValue
      THEN <<[key |-> "category_id", value |-> category_id[1]]>> ELSE <<>>)
  \o (IF item.memo # NoValue
      THEN <<[key |-> "memo", value |-> item.memo[1]]>> ELSE <<>>)
  \o (IF item.flag_color # NoValue
      THEN <<[key |-> "flag_color", value |-> item.flag_color[1]]>>
      ELSE <<>>)
  \o (IF item.cleared # NoValue
      THEN <<[key |-> "cleared", value |-> item.cleared[1]]>> ELSE <<>>)
  \o (IF item.approved # NoValue
      THEN <<[key |-> "approved", value |-> item.approved[1]]>> ELSE <<>>)

\* the later update replaces the payload of the transaction
MergeReplaces(merged, id, update) == DictSet(merged, id, update)

\* the update of one request enters the payloads by transaction id
MergeUpdate(merged, id, update) ==
  IF DictHas(merged, id)
  THEN DictSet(merged, id, DictUpdate(DictGet(merged, id), update))
  ELSE DictSet(merged, id, update)

\* one pass of the loop of compute_bulk_transaction_updates
BulkStep(transactions, groups, acc, item) ==
  LET match == FilterTransactionByDescription(transactions,
                                                item.transaction_description)
      named == item.category_name # NoValue /\ item.category_name[1] # <<>>
      cat == ResolveCategory(groups, item.category_name[1])
  IN IF match = NoValue
     THEN [acc EXCEPT !.errors =
             Append(@, <<"No match for '">> \o item.transaction_description
                       \o <<"'">>)]
     ELSE IF named /\ cat.kind = "raise"
     THEN [acc EXCEPT !.errors =
             Append(@, <<"No category matching '">> \o item.category_name[1]
                       \o <<"' for '">> \o item.transaction_description
                       \o <<"'">>)]
     ELSE [acc EXCEPT !.merged =
             MergeUpdate(@, match[1].id,
                         ItemUpdate(match[1],
                                    IF named THEN Some(cat.value.id)
                                    ELSE NoValue,
                                    item))]

RECURSIVE BulkLoop(_, _, _, _)
BulkLoop(transactions, groups, acc, updates) ==
  IF updates = <<>> THEN acc
  ELSE BulkLoop(transactions, groups,
                BulkStep(transactions, groups, acc, Head(updates)),
                Tail(updates))

\* compute_bulk_transaction_updates
ComputeBulkTransactionUpdates(transactions, groups, updates) ==
  LET acc == BulkLoop(transactions, groups,
                      [merged |-> <<>>, errors |-> <<>>], updates)
  IN [errors |-> acc.errors,
      payloads |-> [i \in 1..Len(acc.merged) |-> acc.merged[i].value]]

(***************************************************************************)
(* analyze_spending_trends.  Dates are texts of ten characters; amounts   *)
(* are whole cents, so that milliunits_to_dollars gives the double nearest *)
(* to them.  An average over n months is a double in units of 1/(100 n),   *)
(* and 1.5 times it one in units of 1/(200 n).                             *)
(***************************************************************************)
\* strftime("%Y-%m")
MonthKey(year, month) == ZeroPadded(year, 4) \o <<"-">> \o ZeroPadded(month, 2)

\* the keys of num_months months, the month of `today` last: each step goes
\* to the first day of the month before
RECURSIVE MonthKeys(_, _, _)
MonthKeys(year, month, num_months) ==
  IF num_months = 0 THEN <<>>
  ELSE (IF month = 1 THEN MonthKeys(year - 1, 12, num_months - 1)
        ELSE MonthKeys(year, month - 1, num_months - 1))
       \o <<MonthKey(year, month)>>

\* one pass of the loop over the transactions; totals holds one dict per
\* month key
AddSpending(totals, month_keys, category_name, t) ==
  LET t_month == SubSeq(t.date, 1, 7)
      cat == OrText(t.category_name, <<"Uncategorized">>)
      m == CHOOSE i \in 1..Len(month_keys) : month_keys[i] = t_month
      dollars == FAbs(ToDouble(t.amount \div 10))
      before == IF DictHas(totals[m], cat) THEN DictGet(totals[m], cat)
                ELSE Float(0, 0)
  IN IF t.deleted \/ t.amount >= 0 THEN totals
     ELSE IF \A i \in 1..Len(month_keys) : month_keys[i] # t_month
     THEN totals
     ELSE IF /\ category_name # NoValue
             /\ category_name[1] # <<>>
             /\ ~IsSubstring(Lower(category_name[1]), Lower(cat))
     THEN totals
     ELSE [totals EXCEPT ![m] = DictSet(@, cat, FAdd(before, dollars))]

RECURSIVE MonthlyTotals(_, _, _, _)
MonthlyTotals(totals, month_keys, category_name, transactions) ==
  IF transactions = <<>> THEN totals
  ELSE MonthlyTotals(AddSpending(totals, month_keys, category_name,
                                 Head(transactions)),
                     month_keys, category_name, Tail(transactions))

\* sum(values) of the totals of one category, a month without it as 0.0
RECURSIVE SumOfMonths(_, _, _)
SumOfMonths(totals, cat, n) ==
  IF n = 0 THEN Float(0, 0)
  ELSE FAdd(SumOfMonths(totals, cat, n - 1),
            IF DictHas(totals[n], cat) THEN DictGet(totals[n], cat)
            ELSE Float(0, 0))

\* sum(values) / len(values): a float in units of 1/(100 n)
AverageOf(totals, cat) ==
  LET total == SumOfMonths(totals, cat, Len(totals))
  IN IF total.cents = 0 THEN Float(0, total.err)
     ELSE RoundPositiveIn(100 * Len(totals), total.cents, total.err)

\* avg * 1.5: a float in units of 1/(200 n)
TimesOneAndAHalf(avg, n) ==
  IF avg.cents = 0 THEN Float(0, 3 * avg.err)
  ELSE RoundPositiveIn(200 * n, 3 * avg.cents, 3 * avg.err)

\* avg > 0 and amount > avg * 1.5
IsAnomaly(amount, avg, n) ==
  /\ FGreater(avg, Float(0, 0))
  /\ FGreater(Float(2 * n * amount.cents, 2 * n * amount.err),
              TimesOneAndAHalf(avg, n))

\* the whole number nearest to num/den, a half going to the even one
RoundHalfEven(num, den) ==
  LET q == num \div den
      r == num % den
  IN IF 2 * r < den THEN q
     ELSE IF 2 * r > den THEN q + 1
     ELSE IF q % 2 = 0 THEN q ELSE q + 1

\* round(avg, 2) in cents: an average half way between two cents goes the
\* way the sum was rounded
RoundAverage(avg, n) ==
  LET q == avg.cents \div n
      r == avg.cents % n
  IN IF 2 * r < n THEN q
     ELSE IF 2 * r > n THEN q + 1
     ELSE IF avg.err > 0 THEN q + 1
     ELSE IF avg.err < 0 THEN q
     ELSE IF q % 2 = 0 THEN q ELSE q + 1

\* round(((amount - avg) / avg) * 100, 1), in tenths of a percent
PctAboveAverage(amount, avg, n) ==
  RoundHalfEven(1000 * (n * amount.cents - avg.cents), avg.cents)

AnomalyItem(cat, amount, avg, n) ==
  [category_name |-> cat, current_amount |-> amount.cents,
   average_amount |-> RoundAverage(avg, n),
   pct_above_average |-> PctAboveAverage(amount, avg, n)]

\* sorted(anomalies, key = pct_above_average, reverse = True): stable
RECURSIVE SortByPctDescending(_)
SortByPctDescending(list) ==
  IF list = <<>> THEN <<>>
  ELSE LET rest == SortByPctDescending(Tail(list))
           before == SelectSeq(rest, LAMBDA a : a.pct_above_average
                                               > Head(list).pct_above_average)
           after == SelectSeq(rest, LAMBDA a : a.pct_above_average
                                              <= Head(list).pct_above_average)
       IN before \o <<Head(list)>> \o after

\* the categories of the first n months, each one once.  all_categories is
\* a set of texts, whose order no run fixes: the averages are listed in the
\* order the categories first occur, and nothing depends on it
RECURSIVE CategoriesOfMonths(_, _)
CategoriesOfMonths(totals, n) ==
  IF n = 0 THEN <<>>
  ELSE LET seen == CategoriesOfMonths(totals, n - 1)
           new == SelectSeq(totals[n],
                            LAMBDA e : \A i \in 1..Len(seen) : seen[i] # e.key)
       IN seen \o [j \in 1..Len(new) |-> new[j].key]

\* analyze_spending_trends; reference_date is <<year, month, day>>
AnalyzeSpendingTrends(transactions, num_months, category_name, reference_date) ==
  LET month_keys == MonthKeys(reference_date[1], reference_date[2], num_months)
      n == Len(month_keys)
      totals == MonthlyTotals([i \in 1..n |-> <<>>], month_keys,
                              category_name, transactions)
      all_categories == CategoriesOfMonths(totals, n)
      current == IF n = 0 THEN <<>> ELSE totals[n]
      flagged ==
        SelectSeq(current,
                  LAMBDA e : IsAnomaly(e.value, AverageOf(totals, e.key), n))
      anomalies ==
        [i \in 1..Len(flagged) |->
           AnomalyItem(flagged[i].key, flagged[i].value,
                       AverageOf(totals, flagged[i].key), n)]
  IN [num_months |-> num_months, month_keys |-> month_keys,
      anomalies |-> SortByPctDescending(anomalies),
      averages |->
        [i \in 1..Len(all_categories) |->
           [key |-> all_categories[i],
            value |-> RoundAverage(AverageOf(totals, all_categories[i]), n)]],
      monthly_totals |->
        [i \in 1..n |->
           [j \in 1..Len(totals[i]) |->
              [key |-> totals[i][j].key, value |-> totals[i][j].value.cents]]],
      category_filter |-> category_name]

(***************************************************************************)
(* forecast_spending.  A date is <<year, month, day>>; the difference of   *)
(* two dates is the difference of their ordinals, as datetime.date has it. *)
(* The daily rate and the projection are doubles in units of               *)
(* 1/(100 * days_elapsed).                                                 *)
(***************************************************************************)
IsLeap(year) == year % 4 = 0 /\ (year % 100 # 0 \/ year % 400 = 0)

\* the days before the first of January of a year
DaysBeforeYear(year) ==
  LET y == year - 1
  IN y * 365 + y \div 4 - y \div 100 + y \div 400

\* the days of a year before the first of a month
DaysBeforeMonth(year, month) ==
  <<0, 31, 59, 90, 120, 151, 181, 212, 243, 273, 304, 334>>[month]
  + (IF month > 2 /\ IsLeap(year) THEN 1 ELSE 0)

\* date.toordinal()
ToOrdinal(d) == DaysBeforeYear(d[1]) + DaysBeforeMonth(d[1], d[2]) + d[3]

\* the first of the month after, without the step into the next year
NextMonthFirstSameYear(today) == <<today[1], (today[2] % 12) + 1, 1>>

\* the first day of the month after the month of today
NextMonthFirst(today) ==
  IF today[2] = 12 THEN <<today[1] + 1, 1, 1>>
  ELSE <<today[1], today[2] + 1, 1>>

\* the double nearest to units/den + err/(den * 2^59)
RoundToDoubleIn(den, units, err) ==
  IF units = 0 THEN Float(0, err)
  ELSE IF units < 0 THEN FNeg(RoundPositiveIn(den, -units, -err))
  ELSE RoundPositiveIn(den, units, err)

\* round(x, 2) in cents of a float in units of 1/(100 n)
RoundCents(x, n) ==
  IF x.cents < 0 THEN -RoundAverage(FNeg(x), n) ELSE RoundAverage(x, n)

\* sum(abs(t.amount) ...) over the outflows that are not deleted
RECURSIVE TotalSpent(_)
TotalSpent(transactions) ==
  IF transactions = <<>> THEN 0
  ELSE (IF Head(transactions).amount < 0 /\ ~Head(transactions).deleted
        THEN -Head(transactions).amount ELSE 0)
       + TotalSpent(Tail(transactions))

\* budget + 0.005 in units of 1/200; the double 0.005 is 12 units of
\* 1/(200 * 2^59) above 0.005
PlusHalfCent(budget) ==
  IF budget.cents = 0 THEN Float(1, 12)
  ELSE RoundToDoubleIn(200, 2 * budget.cents + 1, 2 * budget.err + 12)

BudgetedCategory(name, budgeted) == [name |-> name, budgeted |-> budgeted]

\* forecast_spending; the amounts of the result are in cents
ForecastSpending(category, transactions, today) ==
  LET first_of_month == <<today[1], today[2], 1>>
      days_elapsed == ToOrdinal(today) - ToOrdinal(first_of_month) + 1
      last_day == ToOrdinal(NextMonthFirst(today)) - 1
      days_remaining == last_day - ToOrdinal(today)
      spent_dollars == ToDouble(TotalSpent(transactions) \div 10)
      daily_rate ==
        RoundToDoubleIn(100 * days_elapsed, spent_dollars.cents,
                        spent_dollars.err)
      rest_of_month ==
        RoundToDoubleIn(100 * days_elapsed, days_remaining * daily_rate.cents,
                        days_remaining * daily_rate.err)
      projected_total ==
        RoundToDoubleIn(100 * days_elapsed,
                        days_elapsed * spent_dollars.cents + rest_of_month.cents,
                        days_elapsed * spent_dollars.err + rest_of_month.err)
      budget == ToDouble(category.budgeted \div 10)
      limit == PlusHalfCent(budget)
      left ==
        RoundToDoubleIn(100 * days_elapsed,
                        days_elapsed * budget.cents - projected_total.cents,
                        days_elapsed * budget.err - projected_total.err)
  IN [category_name |-> category.name,
      budget |-> budget.cents,
      days_elapsed |-> days_elapsed,
      days_remaining |-> days_remaining,
      daily_rate |-> RoundCents(daily_rate, days_elapsed),
      projected_total |-> RoundCents(projected_total, days_elapsed),
      spent_so_far |-> spent_dollars.cents,
      will_stay_in_budget |->
        ~FGreater(Float(2 * projected_total.cents, 2 * projected_total.err),
                  Float(days_elapsed * limit.cents, days_elapsed * limit.err)),
      projected_remaining |-> RoundCents(left, days_elapsed)]

\* SplitItem
SplitItem(category_name, amount) ==
  [category_name |-> category_name, amount |-> amount]

\* f"{x:.2f}" of a float that is not negative: the digits of its cents
Fixed2(x) ==
  NatToDigits(x.cents \div 100) \o <<".">> \o ZeroPadded(x.cents % 100, 2)

\* sum(s.amount for s in splits): from 0, one addition after the other
RECURSIVE SplitSum(_)
SplitSum(splits) ==
  IF splits = <<>> THEN Float(0, 0)
  ELSE FAdd(SplitSum(SubSeq(splits, 1, Len(splits) - 1)),
            ToDouble(splits[Len(splits)].amount))

\* abs(split_sum - total_dollars)
SplitDifference(total_dollars, splits) ==
  FAbs(FSub(SplitSum(splits), ToDouble(total_dollars)))

\* validate_split_amounts: TRUE when it returns, FALSE when it raises
\* ValueError
ValidateSplitAmounts(total_dollars, splits) ==
  ~FGreater(SplitDifference(total_dollars, splits), ToDouble(1))

\* the message of the ValueError
SplitErrorMessage(total_dollars, splits) ==
  <<"Split amounts sum to $">> \o Fixed2(SplitSum(splits))
    \o <<" but total is $">> \o Fixed2(ToDouble(total_dollars))
    \o <<". Difference: $">> \o Fixed2(SplitDifference(total_dollars, splits))

(***************************************************************************)
(* A tool runs from one await of the client to the next: `wf` is the       *)
(* invocation in progress, with the requests it has made so far.           *)
(***************************************************************************)
\* what the service holds while the tools run
RemoteAccounts ==
  <<Account("a1", <<"Chase", " ", "Checking">>, "checking", TRUE, TRUE),
    Account("a2", <<"Ally", " ", "Savings">>, "savings", TRUE, FALSE)>>

RemoteGroups ==
  <<CategoryGroup("Internal Master Category", FALSE, FALSE,
      <<Category("inflow", _inflow_name, 0, FALSE, FALSE)>>),
    CategoryGroup("Bills", FALSE, FALSE,
      <<Category("k1", <<"Rent">>, 0, FALSE, FALSE),
        Category("k2", <<"Cash", " ", "Inflow", " ", "Tracker">>, 0, FALSE,
                 FALSE)>>)>>

\* a deleted transaction, one of payee A without a category, one without a
\* payee in the category Rent
RemoteTransactions ==
  <<Transaction("t0", <<"2026-01-14">>, -10000, NoValue, Some(<<"A">>),
                NoValue, NoValue, FALSE, TRUE),
    Transaction("t1", <<"2026-01-15">>, -12340, NoValue, Some(<<"A">>),
                NoValue, NoValue, FALSE, FALSE),
    Transaction("t2", <<"2026-01-16">>, -50000, Some(<<"m">>), NoValue,
                Some("k1"), Some(<<"Rent">>), TRUE, FALSE)>>

NoOutcome == [kind |-> "none", value |-> ""]

IdleWorkflow ==
  [fn |-> "", before |-> <<>>, category |-> NoValue, updates |-> <<>>,
   account |-> NoValue, pc |-> "idle", params |-> <<>>, matched |-> NoValue,
   requests |-> <<>>, wrote |-> FALSE, outcome |-> NoOutcome]

\* the tool is called: it stands at its first await
Called(fn, params, pc, m, file) ==
  [IdleWorkflow EXCEPT !.fn = fn, !.params = params, !.pc = pc,
                       !.before = [mappings |-> m, disk |-> file]]

\* the request each await sends
RequestOf(pc) ==
  CASE pc = "get_accounts" -> [path |-> "accounts", method |-> "GET"]
    [] pc = "get_categories" -> [path |-> "categories", method |-> "GET"]
    [] pc = "get_transactions" -> [path |-> "transactions", method |-> "GET"]
    [] pc = "create_transaction" -> [path |-> "transactions", method |-> "POST"]
    [] pc = "update_transaction" -> [path |-> "transactions", method |-> "PATCH"]

\* the request of the await the tool stands at has reached the service
Sent(w) == [w EXCEPT !.requests = Append(@, RequestOf(w.pc))]

\* the service has answered it: a create or an update is done
Answered(w) ==
  [Sent(w) EXCEPT !.wrote = @ \/ RequestOf(w.pc).method \in {"POST", "PATCH"}]

\* how a stretch of a tool ends: at the next await, at a return, at a raise;
\* `learn` is the list given to learn_from_transactions, when it is called
Await(w, pc) == [wf |-> [w EXCEPT !.pc = pc], learn |-> NoValue]

ReturnFrom(w, text, learn) ==
  [wf |-> [w EXCEPT !.pc = "done",
                    !.outcome = [kind |-> "return", value |-> text]],
   learn |-> learn]

RaiseFrom(w, exc) ==
  [wf |-> [w EXCEPT !.pc = "done",
                    !.outcome = [kind |-> "raise", value |-> exc]],
   learn |-> NoValue]

\* the one transaction a tool learns from
LearnedTxn(payee_name, category_id, category_name) ==
  [category_id |-> category_id, category_name |-> category_name,
   payee_name |-> payee_name]

Resolved(cat) == Some([name |-> cat.name, id |-> cat.id])

\* `"inflow" not in name.lower()`
NotInflow(name) == ~IsSubstring(<<"inflow">>, Lower(name))

\* ynab_add_transaction, after get_accounts
AddAfterAccounts(w, m) ==
  LET account == ResolveAccount(RemoteAccounts, w.params.account_name)
      suggestion == SuggestCategory(m, w.params.payee)
  IN IF account.kind = "raise" THEN RaiseFrom(w, "ResolverError")
     ELSE IF w.params.category_name # <<>>
     THEN Await([w EXCEPT !.account = Some(account.value)], "get_categories")
     ELSE Await([w EXCEPT !.account = Some(account.value),
                          !.category =
                             IF suggestion.found
                             THEN Some([name |-> suggestion.category_name,
                                        id |-> suggestion.category_id])
                             ELSE NoValue],
                "create_transaction")

\* ynab_add_transaction, after get_categories
AddAfterCategories(w) ==
  LET cat == ResolveCategory(RemoteGroups, w.params.category_name)
  IN IF cat.kind = "raise" THEN RaiseFrom(w, "ResolverError")
     ELSE Await([w EXCEPT !.category = Resolved(cat.value)],
                "create_transaction")

\* ynab_add_transaction, after create_transaction
AddAfterCreate(w) ==
  ReturnFrom(w, "created",
             IF w.category # NoValue /\ w.category[1].id # ""
             THEN Some(<<LearnedTxn(w.params.payee, w.category[1].id,
                                    w.category[1].name)>>)
             ELSE NoValue)

\* ynab_categorize_transaction, after get_transactions
CategorizeAfterTransactions(w) ==
  LET query == Lower(w.params.transaction_description)
      matched == FirstOrNone(SelectSeq(
                   FilterUncategorizedTransactions(RemoteTransactions),
                   LAMBDA t : MatchesQuery(query, t)))
  IN IF matched = NoValue THEN ReturnFrom(w, "no match", NoValue)
     ELSE Await([w EXCEPT !.matched = matched], "get_categories")

\* CategorizeAfterCategories that learns as soon as the category is known
CategorizeLearnsEarly(w) ==
  LET cat == ResolveCategory(RemoteGroups, w.params.category_name)
  IN IF cat.kind = "raise" THEN RaiseFrom(w, "ResolverError")
     ELSE [wf |-> [w EXCEPT !.category = Resolved(cat.value),
                            !.pc = "update_transaction"],
           learn |-> Some(<<LearnedTxn(OrText(w.matched[1].payee_name, <<>>),
                                       cat.value.id, cat.value.name)>>)]

\* ynab_categorize_transaction, after get_categories
CategorizeAfterCategories(w) ==
  LET cat == ResolveCategory(RemoteGroups, w.params.category_name)
  IN IF cat.kind = "raise" THEN RaiseFrom(w, "ResolverError")
     ELSE Await([w EXCEPT !.category = Resolved(cat.value)],
                "update_transaction")

\* ynab_categorize_transaction, after update_transaction
CategorizeAfterUpdate(w) ==
  ReturnFrom(w, "categorized",
             IF OrText(w.matched[1].payee_name, <<>>) # <<>>
             THEN Some(<<LearnedTxn(w.matched[1].payee_name[1],
                                    w.category[1].id, w.category[1].name)>>)
             ELSE NoValue)

\* ynab_recategorize_transaction, after get_transactions
RecategorizeAfterTransactions(w) ==
  LET matched == FilterTransactionByDescription(
                   RemoteTransactions, w.params.transaction_description)
  IN IF matched = NoValue THEN ReturnFrom(w, "no match", NoValue)
     ELSE Await([w EXCEPT !.matched = matched], "get_categories")

\* ynab_recategorize_transaction, after get_categories
RecategorizeAfterCategories(w) ==
  LET cat == ResolveCategoryOrInflow(RemoteGroups, w.params.new_category_name)
  IN IF cat.kind = "raise" THEN RaiseFrom(w, "ResolverError")
     ELSE Await([w EXCEPT !.category = Resolved(cat.value)],
                "update_transaction")

\* ynab_recategorize_transaction, after update_transaction
RecategorizeAfterUpdate(w) ==
  ReturnFrom(w, "recategorized",
             IF /\ OrText(w.matched[1].payee_name, <<>>) # <<>>
                /\ NotInflow(w.category[1].name)
             THEN Some(<<LearnedTxn(w.matched[1].payee_name[1],
                                    w.category[1].id, w.category[1].name)>>)
             ELSE NoValue)

\* UpdateTransactionInput._at_least_one_update_field: TRUE when the input
\* is accepted
AtLeastOneUpdateField(params) ==
  ~(\A f \in {"memo", "category_name", "payee", "date", "amount",
              "flag_color", "cleared", "approved"} : params[f] = NoValue)

\* ynab_update_transaction from the payload on, the category resolved or
\* not asked for
UpdateFromPayload(w) ==
  LET amount_milliunits ==
        IF w.params.amount = NoValue THEN NoValue
        ELSE IF w.params.amount[1] < 0
        THEN Some(DollarsToMilliunits(Abs(w.params.amount[1])))
        ELSE Some(DollarsToMilliunits(-Abs(w.params.amount[1])))
      computed_updates ==
        ComputeTransactionUpdates(w.matched[1],
          Candidates(w.params.memo,
                     IF w.category = NoValue THEN NoValue
                     ELSE Some(w.category[1].id),
                     IF w.category = NoValue THEN NoValue
                     ELSE Some(w.category[1].name),
                     w.params.payee, w.params.date, amount_milliunits,
                     w.params.flag_color, w.params.cleared,
                     w.params.approved))
  IN IF computed_updates.updates = <<>>
     THEN ReturnFrom(w, "no changes", NoValue)
     ELSE Await([w EXCEPT !.updates = computed_updates.updates],
                "update_transaction")

\* ynab_update_transaction, after get_transactions
UpdateAfterTransactions(w) ==
  LET matched == FilterTransactionByDescription(
                   RemoteTransactions, w.params.transaction_description)
  IN IF matched = NoValue THEN ReturnFrom(w, "no match", NoValue)
     ELSE IF w.params.category_name # NoValue
     THEN Await([w EXCEPT !.matched = matched], "get_categories")
     ELSE UpdateFromPayload([w EXCEPT !.matched = matched])

\* ynab_update_transaction, after get_categories
UpdateAfterCategories(w) ==
  LET cat == ResolveCategoryOrInflow(RemoteGroups, w.params.category_name[1])
  IN IF cat.kind = "raise" THEN RaiseFrom(w, "ResolverError")
     ELSE UpdateFromPayload([w EXCEPT !.category = Resolved(cat.value)])

\* ynab_update_transaction, after update_transaction
UpdateAfterUpdate(w) ==
  LET payee_for_learning ==
        OrText(w.params.payee, OrText(w.matched[1].payee_name, <<>>))
  IN ReturnFrom(w, "updated",
       IF /\ w.category # NoValue
          /\ w.category[1].id # ""
          /\ NotInflow(w.category[1].name)
          /\ payee_for_learning # <<>>
       THEN Some(<<LearnedTxn(payee_for_learning, w.category[1].id,
                              w.category[1].name)>>)
       ELSE NoValue)

\* ynab_add_split_transaction, after get_accounts
SplitAfterAccounts(w) ==
  LET account == ResolveAccount(RemoteAccounts, w.params.account_name)
  IN IF account.kind = "raise" THEN RaiseFrom(w, "ResolverError")
     ELSE IF ~ValidateSplitAmounts(w.params.amount, w.params.splits)
     THEN RaiseFrom(w, "ValueError")
     ELSE Await([w EXCEPT !.account = Some(account.value)], "get_categories")

\* ynab_add_split_transaction, after get_categories
SplitAfterCategories(w) ==
  IF \E i \in 1..Len(w.params.splits) :
       ResolveCategory(RemoteGroups, w.params.splits[i].category_name).kind
         = "raise"
  THEN RaiseFrom(w, "ResolverError")
  ELSE Await(w, "create_transaction")

\* LearnAfterSplit that learns each line of the split
LearnPerSplit(w) ==
  Some([i \in 1..Len(w.params.splits) |->
          LET cat == ResolveCategory(RemoteGroups,
                                     w.params.splits[i].category_name).value
          IN LearnedTxn(w.params.payee, cat.id, cat.name)])

\* what ynab_add_split_transaction gives learn_from_transactions: it does
\* not call it
LearnAfterSplit(w) == NoValue

\* ynab_add_split_transaction, after create_transaction
SplitAfterCreate(w) == ReturnFrom(w, "split created", LearnAfterSplit(w))

\* the tool runs on from the await it stood at, the request answered
Continue(w, m) ==
  CASE w.fn = "ynab_add_transaction" ->
         (CASE w.pc = "get_accounts" -> AddAfterAccounts(w, m)
            [] w.pc = "get_categories" -> AddAfterCategories(w)
            [] w.pc = "create_transaction" -> AddAfterCreate(w))
    [] w.fn = "ynab_categorize_transaction" ->
         (CASE w.pc = "get_transactions" -> CategorizeAfterTransactions(w)
            [] w.pc = "get_categories" -> CategorizeAfterCategories(w)
            [] w.pc = "update_transaction" -> CategorizeAfterUpdate(w))
    [] w.fn = "ynab_recategorize_transaction" ->
         (CASE w.pc = "get_transactions" -> RecategorizeAfterTransactions(w)
            [] w.pc = "get_categories" -> RecategorizeAfterCategories(w)
            [] w.pc = "update_transaction" -> RecategorizeAfterUpdate(w))
    [] w.fn = "ynab_update_transaction" ->
         (CASE w.pc = "get_transactions" -> UpdateAfterTransactions(w)
            [] w.pc = "get_categories" -> UpdateAfterCategories(w)
            [] w.pc = "update_transaction" -> UpdateAfterUpdate(w))
    [] w.fn = "ynab_add_split_transaction" ->
         (CASE w.pc = "get_accounts" -> SplitAfterAccounts(w)
            [] w.pc = "get_categories" -> SplitAfterCategories(w)
            [] w.pc = "create_transaction" -> SplitAfterCreate(w))

\* the host calls a tool: the tool runs to its first await
CallTool(fn, params, pc) ==
  /\ wf.pc = "idle"
  /\ wf' = Called(fn, params, pc, mappings, disk)
  /\ UNCHANGED notWorkflow

\* the host calls ynab_update_transaction: the input is validated before
\* the tool is entered
CallUpdateTool(params) ==
  /\ wf.pc = "idle"
  /\ wf' = IF AtLeastOneUpdateField(params)
           THEN Called("ynab_update_transaction", params, "get_transactions",
                       mappings, disk)
           ELSE RaiseFrom(Called("ynab_update_transaction", params, "idle",
                                 mappings, disk), "ValidationError").wf
  /\ UNCHANGED notWorkflow

\* the request in flight is answered and the tool runs on to its next
\* await or to its end
AwaitReturns ==
  /\ wf.pc \notin {"idle", "done"}
  /\ LET next == Continue(Answered(wf), mappings)
     IN /\ wf' = next.wf
        /\ IF next.learn = NoValue
           THEN UNCHANGED learnVars
           ELSE /\ ObsTotal(ObserveAll(obs, next.learn[1]), LearnKeys) <= MaxLearned
                /\ mappings' = LearnAll(mappings, next.learn[1])
                /\ disk' = Save(mappings')
                /\ obs' = ObserveAll(obs, next.learn[1])
  /\ UNCHANGED <<deltaVars, toolVars, suggestVars, pureVars, overlapVars>>

\* the request in flight fails: the error leaves the tool
AwaitRaises ==
  /\ wf.pc \notin {"idle", "done"}
  /\ wf' = RaiseFrom(Sent(wf), "YNABError").wf
  /\ UNCHANGED notWorkflow

\* the host has what the tool returned or raised
HostResumes ==
  /\ wf.pc = "done"
  /\ wf' = IdleWorkflow
  /\ UNCHANGED notWorkflow

(***************************************************************************)
(* handle_tool_errors: the boundary between a tool and its host.           *)
(***************************************************************************)
\* the longest log of unexpected errors a run keeps
MaxLog == 2

\* the base class of each exception class (single inheritance suffices)
Parent(cls) ==
  CASE cls \in {"YNABError", "ResolverError", "RuntimeError", "ValueError",
                "LookupError", "HTTPError"} -> "Exception"
    [] cls \in {"ValidationError", "JSONDecodeError"} -> "ValueError"
    [] cls = "KeyError" -> "LookupError"
    [] cls = "RequestError" -> "HTTPError"
    [] cls = "TransportError" -> "RequestError"
    [] cls \in {"TimeoutException", "NetworkError"} -> "TransportError"
    [] cls \in {"ReadTimeout", "ConnectTimeout"} -> "TimeoutException"
    [] cls = "ConnectError" -> "NetworkError"
    [] cls = "Exception" -> "BaseException"
    [] OTHER -> "object"

RECURSIVE IsInstance(_, _)
IsInstance(cls, base) ==
  IF cls = base THEN TRUE
  ELSE IF cls = "object" THEN FALSE
  ELSE IsInstance(Parent(cls), base)

Str(parts) == [type |-> "str", parts |-> parts]

\* the except clauses of wrapper without the last one
ExceptClausesKnownOnly ==
  <<"YNABError", "ResolverError", "ConnectError", "TimeoutException",
    "ValidationError">>

\* the except clauses of wrapper, in order
ExceptClauses ==
  <<"YNABError", "ResolverError", "ConnectError", "TimeoutException",
    "ValidationError", "Exception">>

\* what each except clause returns
HandlerText(clause, fn, e) ==
  CASE clause = "YNABError" -> Str(<<"YNAB API error: ", e.detail>>)
    [] clause = "ResolverError" -> Str(<<e.message>>)
    [] clause = "ConnectError" ->
         Str(<<"Cannot connect to YNAB API. Check your network connection.">>)
    [] clause = "TimeoutException" ->
         Str(<<"Request to YNAB timed out. Please try again.">>)
    [] clause = "ValidationError" ->
         Str(<<"Invalid data: ", ToString(e.error_count),
               " validation error(s). Check your input.">>)
    [] clause = "Exception" ->
         Str(<<"Unexpected error: ", e.cls, ": ", e.message>>)

\* the clauses that match an exception of class cls
Matching(cls) ==
  {i \in 1..Len(ExceptClauses) : IsInstance(cls, ExceptClauses[i])}

\* wrapper: what the host gets for an outcome of the wrapped function
HandleToolErrors(fn, outcome) ==
  IF outcome.kind = "return"
  THEN [kind |-> "return", value |-> outcome.value, logged |-> FALSE]
  ELSE IF Matching(outcome.exc.cls) = {}
  THEN [kind |-> "raise", value |-> Str(<<>>), logged |-> FALSE]
  ELSE LET i == CHOOSE j \in Matching(outcome.exc.cls) :
                  \A k \in Matching(outcome.exc.cls) : j <= k
       IN [kind |-> "return",
           value |-> HandlerText(ExceptClauses[i], fn, outcome.exc),
           logged |-> ExceptClauses[i] = "Exception"]

Returned(value) == [kind |-> "return", exc |-> NoExc, value |-> value]
Raised(exc) == [kind |-> "raise", exc |-> exc, value |-> Str(<<>>)]

IdleTool ==
  [phase |-> "idle", fn |-> "",
   result |-> [kind |-> "none", value |-> Str(<<>>), logged |-> FALSE],
   outcome |-> Returned(Str(<<>>))]

\* the exceptions a wrapped tool function ends with
ResolverErrorExc(entity_type, available) ==
  [NoExc EXCEPT !.cls = "ResolverError",
                !.name = entity_type,
                !.message = IF available
                            THEN "No entity found matching 'query'. Available: names"
                            ELSE "No entity found matching 'query'."]

ValidationErrorExc(n) ==
  [NoExc EXCEPT !.cls = "ValidationError", !.error_count = n,
                !.message = "validation errors"]

ToolNames == {"ynab_get_accounts", "ynab_get_category_spending", "ynab_move_money"}

ToolExceptions ==
  {StatusErrorExc(code, body) : code \in StatusCodes, body \in ErrorBodies}
  \cup {TimeoutExc, ConnectExc}
  \cup {ResolverErrorExc(t, a) : t \in {"account", "category"}, a \in BOOLEAN}
  \cup {ValidationErrorExc(n) : n \in 1..2}
  \cup {Propagated(cls) : cls \in {"ReadTimeout", "ConnectTimeout",
                                   "RuntimeError", "KeyError"}}

\* the host calls a tool
InvokeTool(fn) ==
  /\ tool.phase \in {"idle", "returned"}
  /\ tool' = [IdleTool EXCEPT !.phase = "running", !.fn = fn]
  /\ UNCHANGED <<errorLog, notTool>>

\* the wrapped function ends with outcome; wrapper hands the host its answer
ToolEnds(outcome) ==
  /\ tool.phase = "running"
  /\ LET result == HandleToolErrors(tool.fn, outcome)
     IN /\ tool' = [tool EXCEPT !.phase = "returned", !.outcome = outcome,
                                !.result = result]
        /\ errorLog' = IF result.logged /\ Len(errorLog) < MaxLog
                       THEN Append(errorLog, tool.fn) ELSE errorLog
  /\ UNCHANGED notTool

ToolReturns(value) == ToolEnds(Returned(value))

ToolRaises(exc) == ToolEnds(Raised(exc))

\* Categorizer.__init__ on a path that holds no file
InitLearn ==
  /\ mappings = <<>>
  /\ disk = [text |-> <<>>, exists |-> FALSE]
  /\ obs = [key \in LearnKeys |-> <<>>]

InitWith(changes, calls) ==
  /\ InitLearn
  /\ tool = IdleTool
  /\ errorLog = <<>>
  /\ suggested = NoSuggestion
  /\ computed = NoComputation
  /\ wf = IdleWorkflow
  /\ inflight = [s \in Slots |-> IdleFlight]
  /\ finished = NoFinished
  /\ malformed = {}
  /\ server_knowledge = [p \in Paths |-> NoKnowledge]
  /\ delta_cache = [p \in Paths |-> [present |-> FALSE, tbl |-> <<>>]]
  /\ call = IdleCall
  /\ lastResult = NoResult
  /\ srv = [c \in Collections |->
              [k \in Keys |-> IF k = 1 THEN [ver |-> 0, st |-> "live"]
                              ELSE [ver |-> 0, st |-> "none"]]]
  /\ srvKnowledge = 0
  /\ lastDeltaT = [p \in Paths |-> NoKnowledge]
  /\ lastCollT = [c \in Collections |-> NoKnowledge]
  /\ allCarried = [p \in Paths |-> TRUE]
  /\ tombstoned = [p \in Paths |-> {}]
  /\ ncalls = 0
  /\ limits = [changes |-> changes, calls |-> calls]

\* what finishes a request, whichever getter made it
Finish ==
  \/ \E carry \in BOOLEAN, sel \in SUBSET Keys : Respond(carry, sel)
  \/ \E code \in StatusCodes, body \in ErrorBodies : RaiseStatus(code, body)
  \/ RaiseTimeout
  \/ RaiseConnect
  \/ Receive

(***************************************************************************)
(* Spec: the transactions of one budget change on the remote service and   *)
(* are read through every form of get_transactions.                        *)
(***************************************************************************)
Init == InitWith(MaxKnowledge, MaxCalls)

Next ==
  \/ \E k \in Keys : ServerCreate("transactions", k)
  \/ \E k \in Keys : ServerUpdate("transactions", k)
  \/ \E k \in Keys : ServerDelete("transactions", k)
  \/ \E since_date, account_id, category_id \in BOOLEAN :
        GetTransactions(since_date, account_id, category_id)
  \/ Finish

Spec == Init /\ [][Next]_vars

(***************************************************************************)
(* SpecGetters: all five collections change and are read through their     *)
(* whole-collection getters.                                               *)
(***************************************************************************)
InitGetters == InitWith(WideKnowledge, WideCalls)

NextGetters ==
  \/ \E c \in Collections, k \in Keys : ServerCreate(c, k)
  \/ \E c \in Collections, k \in Keys : ServerUpdate(c, k)
  \/ \E c \in Collections, k \in Keys : ServerDelete(c, k)
  \/ GetAccounts
  \/ GetCategories
  \/ GetTransactions(FALSE, FALSE, FALSE)
  \/ GetPayees
  \/ GetMonths
  \/ Finish

SpecGetters == InitGetters /\ [][NextGetters]_vars

(***************************************************************************)
(* Properties of the delta-sync cache.                                     *)
(***************************************************************************)
KeysOf(items) == {items[i].key : i \in 1..Len(items)}

\* C1: while every response of a path has carried a knowledge token, the
\* list a delta-enabled fetch returns holds exactly the items a full,
\* non-incremental fetch would have yielded when the service answered: the
\* same keys, the latest version of each, no deleted item.
DeltaEqualsFullFetch ==
  (lastResult.kind = "ok" /\ lastResult.use_delta /\ allCarried[lastResult.path])
    => /\ SeqToSet(lastResult.list) = lastResult.full
       /\ Len(lastResult.list) = Cardinality(lastResult.full)

\* an incremental fetch whose delta held a tombstone, merged into a table
\* that keeps an item the delta did not carry
DeltaEqualsFullFetchWitness ==
  /\ lastResult.kind = "ok" /\ lastResult.use_delta
  /\ allCarried[lastResult.path]
  /\ lastResult.lkos # NoKnowledge
  /\ DeletedKeys(lastResult.resp_items) # {}
  /\ KeysOf(lastResult.list) \ KeysOf(lastResult.resp_items) # {}

\* C2: a delta-enabled request sends no last_knowledge_of_server before any
\* successful delta response of its path has carried server_knowledge, and
\* afterwards sends the value the most recent such response carried.
SendsLatestKnowledge ==
  (call.phase # "idle" /\ call.use_delta) => call.lkos = lastDeltaT[call.path]

\* a request that sends a token a response carried after the service had
\* changed, later than the first response
SendsLatestKnowledgeWitness ==
  /\ call.phase = "sent" /\ call.use_delta
  /\ call.lkos > 0
  /\ ncalls >= 3

\* C3: a delta-enabled fetch that ends in an HTTP-level failure leaves every
\* cache table and every stored knowledge token as they were.
FailureKeepsCache ==
  [][(call.phase = "sent" /\ call.use_delta /\ lastResult'.kind = "raise")
       => (delta_cache' = delta_cache /\ server_knowledge' = server_knowledge)]_vars

\* a delta-enabled fetch has failed over a table that holds items and a
\* stored token
FailureKeepsCacheWitness ==
  /\ lastResult.kind = "raise" /\ lastResult.use_delta
  /\ delta_cache["transactions"].present
  /\ Len(delta_cache["transactions"].tbl) > 0
  /\ server_knowledge["transactions"] > 0

\* C4: a key removed by a tombstone stays out of the table and of every
\* materialized list until a response carries it not flagged deleted, and
\* the table never holds an item flagged deleted.
TombstoneIsDurable ==
  \A p \in Paths :
    /\ \A k \in tombstoned[p] :
         /\ k \notin KeysOf(delta_cache[p].tbl)
         /\ (lastResult.kind = "ok" /\ lastResult.use_delta /\ lastResult.path = p)
              => k \notin KeysOf(lastResult.list)
    /\ \A i \in 1..Len(delta_cache[p].tbl) : ~delta_cache[p].tbl[i].deleted

\* a fetch after the one that carried the tombstone: the key is still out,
\* another item is in
TombstoneIsDurableWitness ==
  /\ lastResult.kind = "ok" /\ lastResult.use_delta
  /\ lastResult.path = "transactions"
  /\ tombstoned["transactions"] # {}
  /\ DeletedKeys(lastResult.resp_items) = {}
  /\ Len(lastResult.list) > 0

\* C5: a transaction query scoped by since_date, account_id or category_id
\* sends no last_knowledge_of_server, returns the list of its own response
\* and leaves every stored token and every cache table unchanged.
FilteredBypassesDelta ==
  /\ [](call.filtered => (call.lkos = NoKnowledge /\ ~call.use_delta))
  /\ [][(call.phase = "responded" /\ call.filtered /\ lastResult'.kind = "ok")
          => /\ lastResult'.list = call.resp_items
             /\ delta_cache' = delta_cache
             /\ server_knowledge' = server_knowledge]_vars

\* a since_date query on the path of the unfiltered fetch, answered with a
\* newer token than the stored one and a list that is not the cached table
FilteredBypassesDeltaWitness ==
  /\ lastResult.kind = "ok" /\ lastResult.filtered
  /\ lastResult.path = "transactions"
  /\ server_knowledge["transactions"] # NoKnowledge
  /\ lastResult.resp_sk > server_knowledge["transactions"]
  /\ lastResult.list # delta_cache["transactions"].tbl

\* C6: after a successful whole-collection fetch of accounts, categories,
\* transactions, payees or months whose response carried server_knowledge T,
\* the next fetch of that collection sends T and returns the merged mirror.
EveryCollectionMirrored ==
  /\ (call.phase # "idle" /\ ~call.filtered)
       => call.lkos = lastCollT[CollectionOf(call.path)]
  /\ (lastResult.kind = "ok" /\ ~lastResult.filtered
        /\ allCarried[lastResult.path])
       => SeqToSet(lastResult.list) = lastResult.full

\* C7: every HTTP-level failure of a request reaches the caller as a
\* YNABError with status code, error id, name and detail; a timeout has
\* status 408.
FailureIsYNABError ==
  lastResult.kind = "raise"
    => /\ lastResult.exc.cls = "YNABError"
       /\ lastResult.exc.status_code \in StatusCodes \cup {408}
       /\ lastResult.exc.error_id # ""
       /\ lastResult.exc.name # ""
       /\ lastResult.exc.detail # ""
       /\ lastResult.exc.error_id = "timeout" => lastResult.exc.status_code = 408

(***************************************************************************)
(* SpecLearn: the learning store under learning passes, manual overrides   *)
(* and clears.                                                             *)
(***************************************************************************)
InitLearnOnly == InitWith(0, 0)

NextLearn ==
  \/ \E txns \in Batches : LearnFromTransactions(txns)
  \/ \E p \in PayeeInputs \ {<<>>}, c \in CatIds, n \in {"", "Groceries"} :
        AddMapping(p, c, n)
  \/ Clear
  \/ Reopen

SpecLearn == InitLearnOnly /\ [][NextLearn]_vars

RECURSIVE LeadRun(_)
\* the length of the run of equal elements s starts with
LeadRun(s) ==
  IF Len(s) <= 1 THEN Len(s)
  ELSE IF s[2] = s[1] THEN 1 + LeadRun(Tail(s)) ELSE 1

\* s is n >= 1 times one category, then only one other category
IsTwoRuns(s) ==
  /\ Len(s) >= 1
  /\ s[1] \in CatIds
  /\ \A i \in (LeadRun(s) + 1)..Len(s) : s[i] = s[Len(s)]

\* C9: from no mapping, n >= 1 observations of category A followed by m of
\* another category B leave the payee mapped to B when m >= n, to A when
\* m < n.
DecayFlipsAtParity ==
  \A key \in LearnKeys :
    LET s == obs[key]
        n == LeadRun(s)
        m == Len(s) - n
    IN IsTwoRuns(s)
         => /\ HasKey(mappings, key)
            /\ Lookup(mappings, key).category_id =
                 IF m >= n THEN s[Len(s)] ELSE s[1]

\* two observations of one category, then three of the other
DecayFlipsAtParityWitness ==
  /\ obs[<<"a">>] = <<"c1", "c1", "c2", "c2", "c2">>
  /\ HasKey(mappings, <<"a">>)
  /\ Lookup(mappings, <<"a">>).category_id = "c2"

\* C10: after the first observation of a payee without a mapping the store
\* holds an entry under the trimmed, lower-cased name, tied to the observed
\* category, with vote count 1.
FirstObservationCountsOne ==
  \A key \in LearnKeys :
    (Len(obs[key]) = 1 /\ obs[key][1] \in CatIds)
      => /\ HasKey(mappings, key)
         /\ Lookup(mappings, key).category_id = obs[key][1]
         /\ Lookup(mappings, key).count = 1

\* one observation of a payee written in upper case or with blanks around
FirstObservationCountsOneWitness ==
  /\ obs[<<"a">>] = <<"c2">>
  /\ HasKey(mappings, <<"a">>)
  /\ Len(mappings) = 2

\* C11 as stated: a payee mapped to category A by its observations keeps A
\* after one single observation of another category B.
SingleOutlierNeverFlips ==
  \A key \in LearnKeys :
    LET s == obs[key]
    IN (IsTwoRuns(s) /\ Len(s) = LeadRun(s) + 1)
         => /\ HasKey(mappings, key)
            /\ Lookup(mappings, key).category_id = s[1]

\* C11 amended: a mapping to A whose vote count is n >= 2 keeps A after one
\* single observation of B, with count n - 1; a mapping whose count is 1
\* flips to B on that observation, with count 1.
SingleOutlierFlipsOnlyCountOne ==
  \A key \in LearnKeys :
    LET s == obs[key]
        n == LeadRun(s)
    IN (IsTwoRuns(s) /\ Len(s) = n + 1)
         => /\ HasKey(mappings, key)
            /\ n >= 2 => /\ Lookup(mappings, key).category_id = s[1]
                         /\ Lookup(mappings, key).count = n - 1
            /\ n = 1 => /\ Lookup(mappings, key).category_id = s[2]
                        /\ Lookup(mappings, key).count = 1

\* three observations of one category, then one of the other
SingleOutlierFlipsOnlyCountOneWitness ==
  /\ obs[<<"a">>] = <<"c1", "c1", "c1", "c2">>
  /\ HasKey(mappings, <<"a">>)
  /\ Lookup(mappings, <<"a">>).category_id = "c1"
  /\ Lookup(mappings, <<"a">>).count = 2

\* C13: after every learning pass, manual override and clear the mappings
\* file holds the table in memory: a new store constructed on the file has
\* the same keys in the same order, with the same categories and counts.
PersistedEqualsMemory == Load(disk) = mappings

\* a file of two mappings, one pinned by hand, one learned without a
\* category name
PersistedEqualsMemoryWitness ==
  /\ disk.exists
  /\ Len(disk.text) = 2
  /\ Len(mappings) = 2
  /\ \E i \in 1..2 : mappings[i].count = ManualCount
  /\ \E i \in 1..2 : mappings[i].count < ManualCount
                       /\ mappings[i].category_name = ""
  /\ Load(disk) = mappings

\* C26: after any sequence of learning passes, manual overrides and clears
\* on a store that started empty, every stored entry has a vote count of at
\* least 1.
CountsAtLeastOne ==
  \A i \in 1..Len(mappings) : mappings[i].count >= 1

\* a mapping voted down to its last vote, and one that gave way
CountsAtLeastOneWitness ==
  /\ obs[<<"a">>] = <<"c1", "c1", "c2">>
  /\ obs[<<"b">>] = <<"c1", "c2">>
  /\ Lookup(mappings, <<"a">>) = Entry(<<"a">>, "c1", "Groceries", 1)
  /\ Lookup(mappings, <<"b">>).category_id = "c2"
  /\ Lookup(mappings, <<"b">>).count = 1

(***************************************************************************)
(* SpecSuggest: payees whose names contain one another are learned, set by *)
(* hand and looked up.                                                     *)
(***************************************************************************)
SuggestPayees == {<<"A">>, <<"B">>, LongPayee}

SuggestQueries ==
  {<<>>, <<"A">>, <<"B">>, <<" ", "A", "B">>, <<"B", "A">>, <<"C">>, <<" ">>}

NextSuggest ==
  \/ \E p \in SuggestPayees :
        LearnFromTransactions(
          <<[category_id |-> "c1", category_name |-> CatName("c1"),
             payee_name |-> p]>>)
  \/ \E p \in SuggestPayees, c \in CatIds : AddMapping(p, c, CatName(c))
  \/ Clear
  \/ \E q \in SuggestQueries : CallSuggestCategory(q)

SpecSuggest == InitLearnOnly /\ [][NextSuggest]_vars

\* the trimmed, lower-cased form of each query, written out
QueryKey(q) ==
  CASE q = <<"A">> -> <<"a">>
    [] q = <<"B">> -> <<"b">>
    [] q = <<" ", "A", "B">> -> <<"a", "b">>
    [] q = <<"B", "A">> -> <<"b", "a">>
    [] q = <<"C">> -> <<"c">>
    [] q = <<" ">> -> <<>>
    [] q = <<>> -> <<>>

\* the positions of the table whose key contains `key` or is contained in it
PartialPositions(m, key) ==
  {i \in 1..Len(m) : IsSubstring(m[i].key, key) \/ IsSubstring(key, m[i].key)}

\* what the lookup of query q in table m is to return
ExpectedSuggestion(m, q) ==
  LET key == QueryKey(q)
      exact == {i \in 1..Len(m) : m[i].key = key}
      partial == PartialPositions(m, key)
      Hit(i) == [category_id |-> m[i].category_id,
                 category_name |-> m[i].category_name, found |-> TRUE]
  IN IF q = <<>> THEN None
     ELSE IF exact # {} THEN Hit(CHOOSE i \in exact : TRUE)
     ELSE IF partial # {}
     THEN Hit(CHOOSE i \in partial : \A j \in partial : i <= j)
     ELSE None

\* C12: suggest_category returns the mapping under the trimmed, lower-cased
\* query when that key exists, else the mapping of the first key in
\* insertion order that contains the query or is contained in it, else
\* nothing; and nothing for an empty payee.
SuggestExactThenFirstPartial ==
  [][\A q \in SuggestQueries :
       CallSuggestCategory(q)
         => suggested'.result = ExpectedSuggestion(mappings, q)]_vars

\* the query's own key is in the table behind an earlier key it contains,
\* with another category, and the lookup returned the category of its own key
SuggestExactThenFirstPartialWitness ==
  /\ suggested.called
  /\ suggested.query = <<" ", "A", "B">>
  /\ Len(mappings) >= 2
  /\ mappings[1].key = <<"a">>
  /\ HasKey(mappings, <<"a", "b">>)
  /\ Lookup(mappings, <<"a", "b">>).category_id # mappings[1].category_id
  /\ suggested.result.found
  /\ suggested.result.category_id = Lookup(mappings, <<"a", "b">>).category_id

(***************************************************************************)
(* SpecOverspending: analyze_overspending on budgets of up to MaxCats      *)
(* categories, some overspent by less than the tolerance, some behind a    *)
(* hidden flag or an internal group.                                       *)
(***************************************************************************)
MaxCats == 4

BalanceInputs == {-2000, -1000, -30, -10, -6, 4, 40, 1000, 1500, 3000}

CatIdOf(i) == <<"k1", "k2", "k3", "k4", "k5", "k6">>[i]

\* one visible group of the given balances: as it is, with its first
\* category hidden, after an internal group, or after a deleted group
BudgetVariants == {"plain", "hidden", "internal", "deleted"}

Budget(balances, variant) ==
  LET visible ==
        CategoryGroup("Bills", FALSE, FALSE,
          [i \in 1..Len(balances) |->
             Category(CatIdOf(i), CatIdOf(i), balances[i],
                      variant = "hidden" /\ i = 1, FALSE)])
      Extra(name, deleted) ==
        CategoryGroup(name, FALSE, deleted,
                      <<Category("k0", "k0", 3000, FALSE, FALSE)>>)
  IN CASE variant = "internal" ->
            <<Extra("Internal Master Category", FALSE), visible>>
       [] variant = "deleted" -> <<Extra("Old", TRUE), visible>>
       [] OTHER -> <<visible>>

CallAnalyzeOverspending ==
  /\ computed.fn = "none"
  /\ \E n \in 0..MaxCats :
       \E balances \in [1..n -> BalanceInputs], variant \in BudgetVariants :
         Compute("analyze_overspending", Budget(balances, variant),
                 AnalyzeOverspending(Budget(balances, variant)))

NextOverspending == CallAnalyzeOverspending

SpecOverspending == InitLearnOnly /\ [][NextOverspending]_vars

\* the suggestions of the result at the given positions, summed
RECURSIVE SumAt(_, _)
SumAt(suggestions, positions) ==
  IF positions = {} THEN 0
  ELSE LET i == CHOOSE j \in positions : TRUE
       IN suggestions[i].amount + SumAt(suggestions, positions \ {i})

Into(result, id) ==
  {i \in 1..Len(result.suggestions) : result.suggestions[i].to_category_id = id}

OutOf(result, id) ==
  {i \in 1..Len(result.suggestions) :
     result.suggestions[i].from_category_id = id}

\* C16: in a result of analyze_overspending the suggestions into one
\* overspent category sum to at most its deficit, those out of one source
\* to at most its surplus, and all of them to at most the total surplus.
SuggestionsWithinCapacity ==
  computed.fn = "analyze_overspending" =>
    LET r == computed.result
    IN /\ \A i \in 1..Len(r.overspent) :
            SumAt(r.suggestions, Into(r, r.overspent[i].category_id))
              <= -r.overspent[i].amount
       /\ \A i \in 1..Len(r.sources) :
            SumAt(r.suggestions, OutOf(r, r.sources[i].category_id))
              <= r.sources[i].amount
       /\ SumAt(r.suggestions, 1..Len(r.suggestions)) <= SumAmounts(r.sources)

\* two deficits that the two sources together cannot cover: the surplus is
\* used up and the second deficit is left short
SuggestionsWithinCapacityWitness ==
  /\ computed.fn = "analyze_overspending"
  /\ Len(computed.result.overspent) = 2
  /\ Len(computed.result.sources) = 2
  /\ SumAmounts(computed.result.sources) < computed.result.total_overspent
  /\ SumAt(computed.result.suggestions, 1..Len(computed.result.suggestions))
       = SumAmounts(computed.result.sources)
  /\ Len(computed.result.suggestions) = 3

\* the amount the result lists for a category among `list`
AmountOf(list, id) ==
  list[CHOOSE i \in 1..Len(list) : list[i].category_id = id].amount

\* C17: deficits are served worst first and sources drawn richest first:
\* a suggestion into a more negative category precedes every suggestion
\* into a less negative one; a suggestion takes no more than what earlier
\* suggestions left in its source, and a less negative category gets funds
\* only when every more negative one is fully covered; within one deficit
\* the sources come in descending order of their original balance.
ServesWorstFirstRichestFirst ==
  computed.fn = "analyze_overspending" =>
    LET r == computed.result
        sg == r.suggestions
        N == 1..Len(sg)
    IN /\ \A i, j \in N :
            AmountOf(r.overspent, sg[i].to_category_id)
              < AmountOf(r.overspent, sg[j].to_category_id) => i < j
       /\ \A j \in N :
            sg[j].amount
              <= AmountOf(r.sources, sg[j].from_category_id)
                   - SumAt(sg, {i \in 1..(j - 1) :
                                  sg[i].from_category_id = sg[j].from_category_id})
       /\ \A a, b \in 1..Len(r.overspent) :
            (/\ r.overspent[a].amount < r.overspent[b].amount
             /\ \E j \in Into(r, r.overspent[b].category_id) : sg[j].amount > 0)
              => SumAt(sg, Into(r, r.overspent[a].category_id))
                   = -r.overspent[a].amount
       /\ \A i, j \in N :
            (i < j /\ sg[i].to_category_id = sg[j].to_category_id)
              => AmountOf(r.sources, sg[i].from_category_id)
                   >= AmountOf(r.sources, sg[j].from_category_id)

\* the less negative deficit comes first in the input and the poorer source
\* before the richer; the worse deficit takes the richer source whole and
\* part of the poorer, whose rest goes to the other deficit
ServesWorstFirstRichestFirstWitness ==
  /\ computed.fn = "analyze_overspending"
  /\ Len(computed.args) = 1
  /\ Len(computed.args[1].categories) = 4
  /\ computed.args[1].categories[1].balance = -1000
  /\ computed.args[1].categories[2].balance = -2000
  /\ computed.args[1].categories[3].balance = 1000
  /\ computed.args[1].categories[4].balance = 1500
  /\ ~computed.args[1].categories[1].hidden
  /\ Len(computed.result.suggestions) = 3
  /\ computed.result.suggestions[1].to_category_id = "k2"
  /\ computed.result.suggestions[1].from_category_id = "k4"
  /\ computed.result.suggestions[3].to_category_id = "k1"
  /\ computed.result.suggestions[3].amount = 500

\* the suggestions made while the first n overspent categories were served
ServedUpTo(r, n) ==
  {j \in 1..Len(r.suggestions) :
     \E k \in 1..n :
       r.suggestions[j].to_category_id = r.overspent[k].category_id}

\* C30: analyze_overspending leaves a deficit short by more than the
\* tolerance only when, once that deficit is served, every source has given
\* all it had; when the surplus is at least the deficit in total every
\* overspent category receives its whole deficit; and every suggestion in
\* the result has an amount above zero.
ShortOnlyWhenSourcesExhausted ==
  computed.fn = "analyze_overspending" =>
    LET r == computed.result
    IN /\ \A n \in 1..Len(r.overspent) :
            SumAt(r.suggestions, Into(r, r.overspent[n].category_id))
              < -r.overspent[n].amount
            => \A i \in 1..Len(r.sources) :
                 SumAt(r.suggestions,
                       OutOf(r, r.sources[i].category_id)
                         \cap ServedUpTo(r, n))
                   = r.sources[i].amount
       /\ SumAmounts(r.sources) >= -SumAmounts(r.overspent)
            => \A n \in 1..Len(r.overspent) :
                 SumAt(r.suggestions, Into(r, r.overspent[n].category_id))
                   = -r.overspent[n].amount
       /\ \A j \in 1..Len(r.suggestions) : r.suggestions[j].amount > 0

(***************************************************************************)
(* SpecResolve: the resolvers on small lists of accounts and of category   *)
(* groups.                                                                 *)
(***************************************************************************)
MaxAccounts == 3

AccountNames == {<<"Chase", " ", "Checking">>, <<"Ally", " ", "Savings">>}

AccountIdOf(i) == <<"a1", "a2", "a3", "a4", "a5">>[i]

\* no name, a name in upper case, a name in lower case, an unknown name
AccountQueries == {<<>>, <<"CHECKING">>, <<"ally">>, <<"amex">>}

CallResolveAccount ==
  /\ computed.fn = "none"
  /\ \E n \in 0..MaxAccounts :
       \E names \in [1..n -> AccountNames],
          types \in [1..n -> {"checking", "savings"}],
          flags \in [1..n -> BOOLEAN \X BOOLEAN],
          name \in AccountQueries :
         LET accounts == [i \in 1..n |->
                            Account(AccountIdOf(i), names[i], types[i],
                                    flags[i][1], flags[i][2])]
         IN Compute("resolve_account", <<accounts, name>>,
                    ResolveAccount(accounts, name))

\* the last name is the reserved category's, given to a category of the
\* budget's own
CategoryNames ==
  {<<"Cash", " ", "Inflow", " ", "Tracker">>, <<"Rent">>, _inflow_name}

\* the reserved category is missing, there, deleted or hidden
InflowStates == {"absent", "live", "deleted", "hidden"}

\* the groups of a budget: an internal group with the reserved category,
\* before or after a group of the budget's own categories, each of these
\* plain, hidden or deleted
Groups(inflow, internal_first, names, marks) ==
  LET internal ==
        CategoryGroup("Internal Master Category", FALSE, FALSE,
          IF inflow = "absent" THEN <<>>
          ELSE <<Category("inflow", _inflow_name, 0, inflow = "hidden",
                          inflow = "deleted")>>)
      own ==
        CategoryGroup("Bills", FALSE, FALSE,
          [i \in 1..Len(names) |->
             Category(CatIdOf(i), names[i], 0, marks[i] = "hidden",
                      marks[i] = "deleted")])
  IN IF internal_first THEN <<internal, own>> ELSE <<own, internal>>

\* the aliases of the reserved category in three spellings, names that
\* hold the word inflow without being an alias, a plain name, an unknown one
CategoryQueries ==
  {<<"inflow">>, <<" ", "INFLOW", " ">>,
   <<"Inflow", ":", " ", "Ready to Assign">>, <<"ready to assign">>,
   <<"inflow", " ", "tracker">>, <<"Cash", " ", "Inflow">>,
   <<"Inflow", ":">>, <<"rent">>, <<"travel">>}

CallResolveCategory(fn) ==
  /\ computed.fn = "none"
  /\ \E n \in 0..2 :
       \E names \in [1..n -> CategoryNames],
          marks \in [1..n -> {"plain", "hidden", "deleted"}],
          inflow \in InflowStates, internal_first \in BOOLEAN,
          name \in CategoryQueries :
         LET groups == Groups(inflow, internal_first, names, marks)
         IN Compute(fn, <<groups, name>>,
                    IF fn = "resolve_category"
                    THEN ResolveCategory(groups, name)
                    ELSE ResolveCategoryOrInflow(groups, name))

NextResolve ==
  \/ CallResolveAccount
  \/ CallResolveCategory("resolve_category")
  \/ CallResolveCategory("resolve_category_or_inflow")

SpecResolve == InitLearnOnly /\ [][NextResolve]_vars

\* the queries of CategoryQueries that are an alias once trimmed and put in
\* lower case
AliasQueries ==
  {<<"inflow">>, <<" ", "INFLOW", " ">>,
   <<"Inflow", ":", " ", "Ready to Assign">>, <<"ready to assign">>}

\* the outcome is the category the internal group holds
ReturnsReserved(outcome) ==
  outcome.kind = "return" /\ outcome.value.id = "inflow"

\* C18: resolve_category_or_inflow returns the reserved category only when
\* the trimmed, lower-cased query is one of the three aliases; for every
\* other query, one that holds the word inflow included, its outcome is the
\* outcome of resolve_category, and resolve_category never returns a
\* category of an internal group.
InflowOnlyByAlias ==
  /\ computed.fn = "resolve_category_or_inflow" =>
       /\ ReturnsReserved(computed.result) => computed.args[2] \in AliasQueries
       /\ computed.args[2] \notin AliasQueries =>
            computed.result = ResolveCategory(computed.args[1], computed.args[2])
  /\ computed.fn = "resolve_category" => ~ReturnsReserved(computed.result)

\* the reserved category is there and the query "inflow tracker" resolved to
\* the budget's own Cash Inflow Tracker
InflowOnlyByAliasWitness ==
  /\ computed.fn = "resolve_category_or_inflow"
  /\ computed.args[2] = <<"inflow", " ", "tracker">>
  /\ \E g \in 1..Len(computed.args[1]) :
       \E c \in 1..Len(computed.args[1][g].categories) :
         /\ computed.args[1][g].categories[c].id = "inflow"
         /\ ~computed.args[1][g].categories[c].deleted
  /\ computed.result.kind = "return"
  /\ computed.result.value.name = <<"Cash", " ", "Inflow", " ", "Tracker">>

\* the positions of the open accounts that satisfy a condition
OpenPositions(accounts, Wanted(_)) ==
  {i \in 1..Len(accounts) : ~accounts[i].closed /\ Wanted(accounts[i])}

Lowest(positions) == CHOOSE i \in positions : \A j \in positions : i <= j

\* the names of the open accounts as they stand in the list
RECURSIVE OpenNames(_)
OpenNames(accounts) ==
  IF accounts = <<>> THEN <<>>
  ELSE (IF Head(accounts).closed THEN <<>> ELSE <<Head(accounts).name>>)
       \o OpenNames(Tail(accounts))

\* C19: resolve_account never returns a closed account.  With a name it
\* returns the first open account whose name holds the name whatever the
\* case, else a lookup error that lists the names of the open accounts;
\* with no name the first open on-budget checking account, else the first
\* open on-budget account, else a lookup error with no candidates.
ResolveAccountNeverClosed ==
  computed.fn = "resolve_account" =>
    LET accounts == computed.args[1]
        name == computed.args[2]
        named == OpenPositions(accounts,
                   LAMBDA a : IsSubstring(Lower(name), Lower(a.name)))
        checking == OpenPositions(accounts,
                      LAMBDA a : a.on_budget /\ a.type = "checking")
        on_budget == OpenPositions(accounts, LAMBDA a : a.on_budget)
        result == computed.result
    IN /\ result.kind = "return" => ~result.value.closed
       /\ name # <<>> /\ named # {} =>
            result = [kind |-> "return", value |-> accounts[Lowest(named)]]
       /\ name # <<>> /\ named = {} =>
            /\ result.kind = "raise"
            /\ result.entity_type = "account"
            /\ result.available = OpenNames(accounts)
       /\ name = <<>> /\ checking # {} =>
            result = [kind |-> "return", value |-> accounts[Lowest(checking)]]
       /\ name = <<>> /\ checking = {} /\ on_budget # {} =>
            result = [kind |-> "return", value |-> accounts[Lowest(on_budget)]]
       /\ name = <<>> /\ on_budget = {} =>
            /\ result.kind = "raise"
            /\ result.entity_type = "account"
            /\ result.available = <<>>

\* a closed account that fits the name stands before the open one returned
ResolveAccountNeverClosedWitness ==
  /\ computed.fn = "resolve_account"
  /\ computed.args[2] = <<"CHECKING">>
  /\ Len(computed.args[1]) >= 2
  /\ computed.args[1][1].closed
  /\ computed.args[1][1].name = <<"Chase", " ", "Checking">>
  /\ computed.result.kind = "return"
  /\ computed.result.value.id # "a1"

(***************************************************************************)
(* SpecSplit: validate_split_amounts on splits of two and three lines,     *)
(* with sums at the total, one cent off it and further.                    *)
(***************************************************************************)
\* totals and split amounts, in cents
SplitTotals == {3, 3000, 10000, 10001}
SplitAmounts == {1, 2, 1000, 1999, 3333, 3334, 5000}

CallValidateSplitAmounts ==
  /\ computed.fn = "none"
  /\ \E total_dollars \in SplitTotals, n \in 2..3 :
       \E amounts \in [1..n -> SplitAmounts] :
         LET splits == [i \in 1..n |-> SplitItem(<<"Rent">>, amounts[i])]
         IN Compute("validate_split_amounts", <<total_dollars, splits>>,
                    IF ValidateSplitAmounts(total_dollars, splits)
                    THEN [kind |-> "return", value |-> <<>>]
                    ELSE [kind |-> "raise",
                          value |-> SplitErrorMessage(total_dollars, splits)])

NextSplit == CallValidateSplitAmounts

SpecSplit == InitLearnOnly /\ [][NextSplit]_vars

\* the sum of the split amounts in whole cents
RECURSIVE CentsOf(_)
CentsOf(splits) ==
  IF splits = <<>> THEN 0 ELSE Head(splits).amount + CentsOf(Tail(splits))

\* C25: validate_split_amounts accepts every list of splits whose sum is
\* within 1 cent of the total, a sum exactly 1 cent off it included, and
\* rejects a sum 2 cents or more off it with an error that names the split
\* sum and the total.
SplitsWithinOneCentPass ==
  computed.fn = "validate_split_amounts" =>
    LET total_dollars == computed.args[1]
        off == Abs(CentsOf(computed.args[2]) - total_dollars)
    IN /\ off <= 1 => computed.result.kind = "return"
       /\ off >= 2 =>
            /\ computed.result.kind = "raise"
            /\ IsSubstring(AmountStr(10 * CentsOf(computed.args[2])),
                           computed.result.value)
            /\ IsSubstring(AmountStr(10 * total_dollars),
                           computed.result.value)

(***************************************************************************)
(* SpecUpdates: the update builders on transactions of the budget, with    *)
(* candidates that are absent, equal to the current value and different.   *)
(***************************************************************************)
\* a flagged and cleared transaction
FlaggedTransaction ==
  [Transaction("t3", <<"2026-01-16">>, -50000, Some(<<"m">>), Some(<<"A">>),
               Some("k1"), Some(<<"Rent">>), TRUE, FALSE)
     EXCEPT !.flag_color = Some("red"), !.cleared = "cleared"]

UpdatedTransactions ==
  {RemoteTransactions[2], RemoteTransactions[3], FlaggedTransaction}

CallComputeTransactionUpdates ==
  /\ computed.fn = "none"
  /\ \E transaction \in UpdatedTransactions,
        memo \in {NoValue, Some(<<>>), Some(<<"m">>), Some(<<"n">>)},
        category_id \in {NoValue, Some("k1"), Some("k2")},
        category_name \in {NoValue, Some(<<"Rent">>)},
        payee_name \in {NoValue, Some(<<>>), Some(<<"A">>)},
        date \in {NoValue, Some(<<"2026-01-16">>)},
        amount_milliunits \in {NoValue, Some(-50000)},
        flag_color \in {NoValue, Some("red")},
        cleared \in {NoValue, Some("cleared")},
        approved \in {NoValue, Some(TRUE)} :
       LET c == Candidates(memo, category_id, category_name, payee_name,
                           date, amount_milliunits, flag_color, cleared,
                           approved)
       IN Compute("compute_transaction_updates", <<transaction, c>>,
                  ComputeTransactionUpdates(transaction, c))

\* what a request of the bulk update names
BulkDescriptions == {<<"A">>, <<"2026-01-15">>, <<"m">>, <<"zzz">>}

\* the category, memo and approval of a request
BulkFieldChoices ==
  <<<<NoValue, Some(<<"x">>), NoValue>>,
    <<NoValue, Some(<<"y">>), NoValue>>,
    <<Some(<<"Rent">>), NoValue, NoValue>>,
    <<Some(<<"Cash", " ", "Inflow", " ", "Tracker">>), Some(<<"x">>),
      NoValue>>,
    <<Some(<<"Travel">>), Some(<<"y">>), NoValue>>,
    <<NoValue, NoValue, Some(TRUE)>>>>

CallComputeBulkTransactionUpdates ==
  /\ computed.fn = "none"
  /\ \E n \in 1..MaxRequests :
       \E descriptions \in [1..n -> BulkDescriptions],
          choices \in [1..n -> 1..Len(BulkFieldChoices)] :
         LET updates ==
               [i \in 1..n |->
                  BulkTransactionUpdateInput(
                    descriptions[i], BulkFieldChoices[choices[i]][1],
                    BulkFieldChoices[choices[i]][2], NoValue, NoValue,
                    BulkFieldChoices[choices[i]][3])]
         IN Compute("compute_bulk_transaction_updates",
                    <<RemoteTransactions, RemoteGroups, updates>>,
                    ComputeBulkTransactionUpdates(RemoteTransactions,
                                                  RemoteGroups, updates))

NextUpdates ==
  \/ CallComputeTransactionUpdates
  \/ CallComputeBulkTransactionUpdates

SpecUpdates == InitLearnOnly /\ [][NextUpdates]_vars

\* the keys a payload can have
UpdateKeys ==
  {"memo", "category_id", "payee_name", "date", "amount", "flag_color",
   "cleared", "approved"}

\* the candidate supplied for a key of the payload, or None
CandidateFor(c, key) ==
  CASE key = "memo" -> c.memo
    [] key = "category_id" -> c.category_id
    [] key = "payee_name" -> c.payee_name
    [] key = "date" -> c.date
    [] key = "amount" -> c.amount_milliunits
    [] key = "flag_color" -> c.flag_color
    [] key = "cleared" -> c.cleared
    [] key = "approved" -> c.approved

\* what the transaction has for a key: a text it lacks is the empty text,
\* a category or a flag it lacks is None
CurrentFor(t, key) ==
  CASE key = "memo" -> Some(OrText(t.memo, <<>>))
    [] key = "category_id" -> t.category_id
    [] key = "payee_name" -> Some(OrText(t.payee_name, <<>>))
    [] key = "date" -> Some(t.date)
    [] key = "amount" -> Some(t.amount)
    [] key = "flag_color" -> t.flag_color
    [] key = "cleared" -> Some(t.cleared)
    [] key = "approved" -> Some(t.approved)

FieldNameOf(key) ==
  CASE key = "memo" -> "Memo"
    [] key = "category_id" -> "Category"
    [] key = "payee_name" -> "Payee"
    [] key = "date" -> "Date"
    [] key = "amount" -> "Amount"
    [] key = "flag_color" -> "Flag"
    [] key = "cleared" -> "Cleared"
    [] key = "approved" -> "Approved"

IsChange(t, c, key) ==
  CandidateFor(c, key) # NoValue /\ CandidateFor(c, key) # CurrentFor(t, key)

\* C24: compute_transaction_updates puts a key in the payload exactly when
\* a candidate was supplied for it and differs from the current value of the
\* transaction (a memo or payee the transaction lacks compares as the empty
\* text, and an empty memo supplied for a transaction with a memo is a
\* change that clears it); the payload holds the candidate; the change
\* list has exactly one change per key of the payload, in the same order;
\* with no candidate, or only equal ones, both are empty.
PayloadIsExactlyTheChanges ==
  computed.fn = "compute_transaction_updates" =>
    LET t == computed.args[1]
        c == computed.args[2]
        updates == computed.result.updates
        changes == computed.result.changes
        keys == {updates[i].key : i \in 1..Len(updates)}
    IN /\ keys \subseteq UpdateKeys
       /\ Cardinality(keys) = Len(updates)
       /\ \A key \in UpdateKeys : key \in keys <=> IsChange(t, c, key)
       /\ \A i \in 1..Len(updates) :
            updates[i].value = CandidateFor(c, updates[i].key)[1]
       /\ Len(changes) = Len(updates)
       /\ \A i \in 1..Len(changes) :
            changes[i].field_name = FieldNameOf(updates[i].key)
       /\ (c.memo = Some(<<>>) /\ OrText(t.memo, <<>>) # <<>>) =>
            \E i \in 1..Len(updates) :
              /\ updates[i] = [key |-> "memo", value |-> <<>>]
              /\ changes[i].new_value = <<"(cleared)">>
       /\ (\A key \in UpdateKeys : ~IsChange(t, c, key)) =>
            updates = <<>> /\ changes = <<>>

\* a memo is cleared, the category changes, and the candidates equal to
\* the current date and approval are left out
PayloadIsExactlyTheChangesWitness ==
  /\ computed.fn = "compute_transaction_updates"
  /\ computed.args[1] = RemoteTransactions[3]
  /\ computed.args[2] =
       Candidates(Some(<<>>), Some("k2"), NoValue, NoValue,
                  Some(<<"2026-01-16">>), NoValue, NoValue, NoValue,
                  Some(TRUE))
  /\ computed.result.updates =
       <<[key |-> "memo", value |-> <<>>],
         [key |-> "category_id", value |-> "k2"]>>
  /\ Len(computed.result.changes) = 2

\* the fields a request of the bulk update can set
BulkKeys == {"category_id", "memo", "flag_color", "cleared", "approved"}

NamesCategory(item) ==
  item.category_name # NoValue /\ item.category_name[1] # <<>>

\* the transaction the description of a request matches, or None
TargetOf(args, item) ==
  FilterTransactionByDescription(args[1], item.transaction_description)

\* the category a request names is not one of the budget
CategoryFails(args, item) ==
  NamesCategory(item)
  /\ ResolveCategory(args[2], item.category_name[1]).kind = "raise"

\* the value a request asks for a key of the payload, or None
RequestedFor(args, item, key) ==
  CASE key = "category_id" ->
         IF NamesCategory(item) /\ ~CategoryFails(args, item)
         THEN Some(ResolveCategory(args[2], item.category_name[1]).value.id)
         ELSE NoValue
    [] key = "memo" -> item.memo
    [] key = "flag_color" -> item.flag_color
    [] key = "cleared" -> item.cleared
    [] key = "approved" -> item.approved

Highest(S) == CHOOSE i \in S : \A j \in S : j <= i

\* every key of every payload has the value of the latest of the requests
\* that count for the transaction and set the key, and no other key
LatestWins(args, payloads, Counts(_)) ==
  \A p \in 1..Len(payloads) : \A key \in BulkKeys :
    LET setters ==
          {i \in 1..Len(args[3]) :
             /\ Counts(args[3][i])
             /\ TargetOf(args, args[3][i]) # NoValue
             /\ TargetOf(args, args[3][i])[1].id = DictGet(payloads[p], "id")
             /\ RequestedFor(args, args[3][i], key) # NoValue}
    IN IF setters = {} THEN ~DictHas(payloads[p], key)
       ELSE /\ DictHas(payloads[p], key)
            /\ Some(DictGet(payloads[p], key)) =
                 RequestedFor(args, args[3][Highest(setters)], key)

OnePayloadPerId(payloads) ==
  \A p, q \in 1..Len(payloads) :
    DictGet(payloads[p], "id") = DictGet(payloads[q], "id") => p = q

NoMatchErrors(errors) ==
  {e \in 1..Len(errors) : Head(errors[e]) = "No match for '"}

\* C23 as stated: compute_bulk_transaction_updates returns at most one
\* payload per transaction id; the fields of the requests whose descriptions
\* match the same transaction are merged, the latest request in input order
\* winning each field; a request whose description matches no transaction
\* adds one error, and the payloads are those of the other requests alone.
LatestMatchingRequestWins ==
  computed.fn = "compute_bulk_transaction_updates" =>
    LET args == computed.args
        Matches(item) == TargetOf(args, item) # NoValue
    IN /\ OnePayloadPerId(computed.result.payloads)
       /\ LatestWins(args, computed.result.payloads, LAMBDA item : TRUE)
       /\ Cardinality(NoMatchErrors(computed.result.errors)) =
            Cardinality({i \in 1..Len(args[3]) : ~Matches(args[3][i])})
       /\ computed.result.payloads =
            ComputeBulkTransactionUpdates(
              args[1], args[2], SelectSeq(args[3], Matches)).payloads

\* C23: compute_bulk_transaction_updates returns at most one payload per
\* transaction id, and one for every transaction that an accepted request
\* matches, a request being accepted when its description matches a
\* transaction and the category it names, if it names one, is one of the
\* budget; the fields of the accepted requests for the same transaction are
\* merged, the latest in input order winning each field; every other
\* request adds one error, and the payloads are those of the accepted
\* requests alone.
LatestAcceptedRequestWins ==
  computed.fn = "compute_bulk_transaction_updates" =>
    LET args == computed.args
        Accepted(item) ==
          TargetOf(args, item) # NoValue /\ ~CategoryFails(args, item)
        payloads == computed.result.payloads
    IN /\ OnePayloadPerId(payloads)
       /\ LatestWins(args, payloads, Accepted)
       /\ {DictGet(payloads[p], "id") : p \in 1..Len(payloads)} =
            {TargetOf(args, args[3][i])[1].id :
               i \in {j \in 1..Len(args[3]) : Accepted(args[3][j])}}
       /\ Len(computed.result.errors) =
            Cardinality({i \in 1..Len(args[3]) : ~Accepted(args[3][i])})
       /\ Cardinality(NoMatchErrors(computed.result.errors)) =
            Cardinality({i \in 1..Len(args[3]) :
                           TargetOf(args, args[3][i]) = NoValue})
       /\ payloads =
            ComputeBulkTransactionUpdates(
              args[1], args[2], SelectSeq(args[3], Accepted)).payloads

\* three requests for one transaction: a memo, a memo with a category the
\* budget lacks, and a category
LatestAcceptedRequestWinsWitness ==
  /\ computed.fn = "compute_bulk_transaction_updates"
  /\ computed.args[3] =
       <<BulkTransactionUpdateInput(<<"A">>, NoValue, Some(<<"x">>), NoValue,
                                    NoValue, NoValue),
         BulkTransactionUpdateInput(<<"2026-01-15">>, Some(<<"Travel">>),
                                    Some(<<"y">>), NoValue, NoValue, NoValue),
         BulkTransactionUpdateInput(<<"A">>, Some(<<"Rent">>), NoValue,
                                    NoValue, NoValue, NoValue)>>
  /\ computed.result.payloads =
       <<<<[key |-> "id", value |-> "t1"],
           [key |-> "memo", value |-> <<"x">>],
           [key |-> "category_id", value |-> "k1"]>>>>
  /\ Len(computed.result.errors) = 1

(***************************************************************************)
(* SpecTrends: analyze_spending_trends over one to three months, with two  *)
(* categories whose current totals lie below, at and above 1.5 times their *)
(* averages.                                                               *)
(***************************************************************************)
\* date.isoformat()
IsoDate(year, month, day) ==
  MonthKey(year, month) \o <<"-">> \o ZeroPadded(day, 2)

ReferenceDates == {<<2025, 3, 15>>, <<2025, 1, 31>>}

\* the month of the reference date, the two before it, and an older one
SpendingMonths(reference_date) ==
  IF reference_date[2] = 3
  THEN <<<<2025, 3>>, <<2025, 2>>, <<2025, 1>>, <<2024, 11>>>>
  ELSE <<<<2025, 1>>, <<2024, 12>>, <<2024, 11>>, <<2024, 9>>>>

Spending(id, months, back, category_name, amount, deleted) ==
  Transaction(id, IsoDate(months[back + 1][1], months[back + 1][2], 10),
              amount, NoValue, NoValue, NoValue, category_name, TRUE, deleted)

\* the transactions of two categories: rent two months back, last month
\* and now, the tracker last month and now; an amount of 0 is a
\* transaction that does not count
SpendingTransactions(months, rent2, rent1, rent0, cash1, cash0) ==
  <<Spending("s1", months, 0, Some(<<"Cash", " ", "Tracker">>), cash0, FALSE),
    Spending("s2", months, 2, Some(<<"Rent">>), rent2, FALSE),
    Spending("s3", months, 1, Some(<<"Rent">>), rent1, FALSE),
    Spending("s4", months, 0, Some(<<"Rent">>), rent0, FALSE),
    Spending("s5", months, 1, Some(<<"Cash", " ", "Tracker">>), cash1, FALSE),
    Spending("s6", months, 0, Some(<<"Rent">>), 5000, FALSE),
    Spending("s7", months, 0, Some(<<"Rent">>), -9990, TRUE),
    Spending("s8", months, 3, Some(<<"Rent">>), -7770, FALSE),
    Spending("s9", months, 1, NoValue, -500, FALSE)>>

CallAnalyzeSpendingTrends ==
  /\ computed.fn = "none"
  /\ \E reference_date \in ReferenceDates, num_months \in 0..MaxMonths,
        category_name \in {NoValue, Some(<<"Rent">>)},
        rent2 \in {0, -210}, rent1 \in {0, -100, -150, -210},
        rent0 \in {0, -210, -300, -450, -1000},
        cash1 \in {0, -100, -150}, cash0 \in {0, -300, -450} :
       LET transactions ==
             SpendingTransactions(SpendingMonths(reference_date), rent2,
                                  rent1, rent0, cash1, cash0)
       IN Compute("analyze_spending_trends",
                  <<transactions, num_months, category_name, reference_date>>,
                  AnalyzeSpendingTrends(transactions, num_months,
                                        category_name, reference_date))

NextTrends == CallAnalyzeSpendingTrends

SpecTrends == InitLearnOnly /\ [][NextTrends]_vars

\* what the call counts for a category in the month of a key, in cents
RECURSIVE SpentIn(_, _, _, _)
SpentIn(transactions, category_name, key, cat) ==
  IF transactions = <<>> THEN 0
  ELSE LET t == Head(transactions)
           counts ==
             /\ ~t.deleted /\ t.amount < 0
             /\ SubSeq(t.date, 1, 7) = key
             /\ OrText(t.category_name, <<"Uncategorized">>) = cat
             /\ category_name # NoValue =>
                  IsSubstring(Lower(category_name[1]), Lower(cat))
       IN (IF counts THEN (-t.amount) \div 10 ELSE 0)
          + SpentIn(Tail(transactions), category_name, key, cat)

RECURSIVE SpentInAll(_, _, _, _)
SpentInAll(transactions, category_name, keys, cat) ==
  IF keys = <<>> THEN 0
  ELSE SpentIn(transactions, category_name, Head(keys), cat)
       + SpentInAll(transactions, category_name, Tail(keys), cat)

TrendCategories == {<<"Rent">>, <<"Cash", " ", "Tracker">>, <<"Uncategorized">>}

\* the current total of a category is above 1.5 times its average over the
\* n months: current > 1.5 * (total / n)
AboveOneAndAHalf(args, cat) ==
  LET keys == MonthKeys(args[4][1], args[4][2], args[2])
      n == Len(keys)
      total == SpentInAll(args[1], args[3], keys, cat)
  IN /\ n > 0
     /\ total > 0
     /\ 2 * n * SpentIn(args[1], args[3], keys[n], cat) > 3 * total

\* C21: analyze_spending_trends reports a category of the current month as
\* an anomaly exactly when its average over all num_months months, a month
\* without spending counting as zero, is positive and its current total is
\* strictly above 1.5 times that average, so that a total of exactly 1.5
\* times the average is no anomaly; the anomalies come in descending order
\* of their percentage above the average.
AnomalyOnlyAboveOneAndAHalf ==
  computed.fn = "analyze_spending_trends" =>
    LET anomalies == computed.result.anomalies
    IN /\ {anomalies[i].category_name : i \in 1..Len(anomalies)} =
            {cat \in TrendCategories : AboveOneAndAHalf(computed.args, cat)}
       /\ \A i, j \in 1..Len(anomalies) :
            anomalies[i].category_name = anomalies[j].category_name => i = j
       /\ \A i, j \in 1..Len(anomalies) :
            i < j => anomalies[i].pct_above_average
                       >= anomalies[j].pct_above_average

(***************************************************************************)
(* SpecForecast: forecast_spending on every day of a common year, of a     *)
(* leap year and of a year that four divides and that is no leap year.     *)
(***************************************************************************)
ForecastYears == {2023, 2024, 2100}

\* the days of a month of the calendar
DaysInMonth(year, month) ==
  IF month = 2
  THEN (IF year % 400 = 0 \/ (year % 4 = 0 /\ year % 100 # 0) THEN 29
        ELSE 28)
  ELSE IF month \in {4, 6, 9, 11} THEN 30 ELSE 31

Outflow(id, amount, deleted) ==
  Transaction(id, <<"2024-01-01">>, amount, NoValue, NoValue, NoValue,
              NoValue, TRUE, deleted)

\* no spending, one outflow, and two outflows among an inflow and a
\* deleted outflow
ForecastTransactions ==
  <<<<>>,
    <<Outflow("f1", -1000, FALSE)>>,
    <<Outflow("f1", -1230, FALSE), Outflow("f2", 5000, FALSE),
      Outflow("f3", -9990, TRUE), Outflow("f4", -770, FALSE)>>>>

CallForecastSpending ==
  /\ computed.fn = "none"
  /\ \E year \in ForecastYears, month \in 1..12, day \in 1..31,
        budgeted \in {0, 10000, 31000},
        spending \in 1..Len(ForecastTransactions) :
       /\ day <= DaysInMonth(year, month)
       /\ Compute("forecast_spending",
                  <<BudgetedCategory("Rent", budgeted),
                    ForecastTransactions[spending], <<year, month, day>>>>,
                  ForecastSpending(BudgetedCategory("Rent", budgeted),
                                   ForecastTransactions[spending],
                                   <<year, month, day>>))

NextForecast == CallForecastSpending

SpecForecast == InitLearnOnly /\ [][NextForecast]_vars

\* C22: for every reference date forecast_spending reports the day of the
\* month as days_elapsed and the days of the month less that day as
\* days_remaining, in December and in the February of a leap year too; on
\* the last day of a month days_remaining is 0 and projected_total equals
\* spent_so_far.
DaysOfTheMonth ==
  computed.fn = "forecast_spending" =>
    LET today == computed.args[3]
        r == computed.result
    IN /\ r.days_elapsed = today[3]
       /\ r.days_remaining = DaysInMonth(today[1], today[2]) - today[3]
       /\ today[3] = DaysInMonth(today[1], today[2]) =>
            r.days_remaining = 0 /\ r.projected_total = r.spent_so_far

\* the last day of a December, with spending
DaysOfTheMonthWitness ==
  /\ computed.fn = "forecast_spending"
  /\ computed.args[3] = <<2024, 12, 31>>
  /\ computed.result.days_elapsed = 31
  /\ computed.result.days_remaining = 0
  /\ computed.result.spent_so_far = 200
  /\ computed.result.projected_total = 200

(***************************************************************************)
(* SpecOverlap: one delta-synced resource of the budget is read by its     *)
(* getter, and transactions are deleted, by calls that may overlap, as     *)
(* asyncio tasks sharing one YNABClient do.  The code between two awaits   *)
(* runs without interruption, so a call is two steps: up to the await of   *)
(* the transport, and from the response to the getter's return or raise.   *)
(* The remote service may serve an item the getter's pydantic model        *)
(* rejects.                                                                *)
(***************************************************************************)
DeltaGetters == {"get_accounts", "get_transactions", "get_payees", "get_months"}

\* the path each delta-synced getter requests
PathOfGetter(fn) ==
  CASE fn = "get_accounts" -> "accounts"
    [] fn = "get_transactions" -> "transactions"
    [] fn = "get_payees" -> "payees"
    [] fn = "get_months" -> "months"

\* self._server_knowledge.get(path) and self._delta_cache.get(path)
Snapshot(path) ==
  [knowledge |-> server_knowledge[path], cache |-> delta_cache[path]]

\* the paths the client has requested or holds a table of
Touched ==
  {p \in Paths : delta_cache[p].present}
    \cup {inflight[s].path : s \in {o \in Slots : inflight[o].phase # "idle"}}
    \cup ({finished.path} \ {""})

\* _request up to the await, of a getter (use_delta) or of a DELETE; the
\* request takes the first free slot
Send(s, fn, path, id) ==
  /\ inflight[s].phase = "idle"
  /\ \A o \in 1..(s - 1) : inflight[o].phase # "idle"
  /\ ncalls < limits.calls
  /\ Touched \subseteq {path}
  /\ ncalls' = ncalls + 1
  /\ inflight' =
       [o \in Slots |->
          IF o = s
          THEN [IdleFlight EXCEPT
                  !.phase = "sent", !.fn = fn, !.path = path, !.target = id,
                  !.lkos = IF fn \in DeltaGetters
                           THEN server_knowledge[path] ELSE NoKnowledge,
                  !.solo = \A q \in Slots : inflight[q].phase = "idle",
                  !.before = Snapshot(path)]
          ELSE IF inflight[o].phase = "idle" THEN inflight[o]
          ELSE [inflight[o] EXCEPT !.solo = FALSE]]
  /\ UNCHANGED <<server_knowledge, delta_cache, srvVars, finished, malformed,
                 notOverlap>>

OverlapGet(s, fn) == Send(s, fn, PathOfGetter(fn), NoKey)

\* delete_transaction, up to the await
DeleteTransaction(s, transaction_id) ==
  Send(s, "delete_transaction", "transactions", transaction_id)

\* the remote service gains or rewrites an item the getter's model rejects
ServerMalformed(c, k) ==
  /\ srvKnowledge < limits.changes
  /\ Touched \subseteq {c}
  /\ srv[c][k].st # "deleted"
  /\ srvKnowledge' = srvKnowledge + 1
  /\ srv' = [srv EXCEPT ![c][k] = [ver |-> srvKnowledge + 1, st |-> "live"]]
  /\ malformed' = malformed \cup {srvKnowledge + 1}
  /\ UNCHANGED <<server_knowledge, delta_cache, ncalls, inflight, finished,
                 notOverlap>>

\* a change of the resource the client reads
OverlapChange(c, k) ==
  /\ Touched \subseteq {c}
  /\ ServerCreate(c, k) \/ ServerUpdate(c, k) \/ ServerDelete(c, k)

\* the remote service answers a GET with 200
AnswerGet(s) ==
  /\ inflight[s].phase = "sent"
  /\ inflight[s].fn \in DeltaGetters
  /\ LET c == CollectionOf(inflight[s].path)
         items == IF inflight[s].lkos = NoKnowledge THEN FullResponse(c)
                  ELSE ChangedResponse(c, inflight[s].lkos)
     IN inflight' = [inflight EXCEPT
                       ![s].phase = "responded",
                       ![s].resp_sk = srvKnowledge,
                       ![s].resp_items = items,
                       ![s].full = SeqToSet(FullResponse(c))]
  /\ UNCHANGED <<server_knowledge, delta_cache, srvVars, ncalls, finished,
                 malformed, notOverlap>>

\* the remote service deletes the transaction and answers the DELETE with 200
AnswerDelete(s) ==
  /\ inflight[s].phase = "sent"
  /\ inflight[s].fn = "delete_transaction"
  /\ srv["transactions"][inflight[s].target].st = "live"
  /\ srvKnowledge < limits.changes
  /\ srvKnowledge' = srvKnowledge + 1
  /\ srv' = [srv EXCEPT !["transactions"][inflight[s].target] =
                          [ver |-> srvKnowledge + 1, st |-> "deleted"]]
  /\ inflight' = [inflight EXCEPT ![s].phase = "responded"]
  /\ UNCHANGED <<server_knowledge, delta_cache, ncalls, finished, malformed,
                 notOverlap>>

\* what a call hands its caller, with the state of its path before and after
Outcome(s, kind, list, exc, evicted) ==
  [NoFinished EXCEPT
     !.path = inflight[s].path, !.fn = inflight[s].fn,
     !.lkos = inflight[s].lkos, !.resp_items = inflight[s].resp_items,
     !.full = inflight[s].full, !.kind = kind, !.list = list, !.exc = exc,
     !.target = inflight[s].target, !.solo = inflight[s].solo,
     !.before = inflight[s].before,
     !.after = [knowledge |-> server_knowledge'[inflight[s].path],
                cache |-> delta_cache'[inflight[s].path]],
     !.evicted = finished.evicted \cup evicted,
     !.overlapped = finished.overlapped
                      \/ (inflight[s].fn \in DeltaGetters /\ ~inflight[s].solo)]

\* the request fails: _request raises at the await, whatever the call
OverlapRaise(s, exc) ==
  /\ inflight[s].phase = "sent"
  /\ inflight[s].fn = "delete_transaction"
       => srv["transactions"][inflight[s].target].st # "live"
  /\ UNCHANGED <<server_knowledge, delta_cache>>
  /\ finished' = Outcome(s, "raise", <<>>, exc, {})
  /\ inflight' = [inflight EXCEPT ![s] = IdleFlight]
  /\ UNCHANGED <<srvVars, ncalls, malformed, notOverlap>>

\* Decodes that accepts every item
DecodesAll(list) == TRUE

\* `[Account(**a) for a in data.get("accounts", [])]` and its like: the
\* model's validation passes on every item of the list
Decodes(list) == \A i \in 1..Len(list) : list[i].ver \notin malformed

\* _request after the await with use_delta and delta_key, then the getter's
\* decoding of the merged list
ReceiveGet(s) ==
  /\ inflight[s].phase = "responded"
  /\ inflight[s].fn \in DeltaGetters
  /\ LET path == inflight[s].path
         table == MergeDelta(path, inflight[s].resp_items)
     IN /\ server_knowledge' =
             StoreKnowledge(server_knowledge, path, TRUE, inflight[s].resp_sk)
        /\ delta_cache' =
             [delta_cache EXCEPT ![path] = [present |-> TRUE, tbl |-> table]]
        /\ finished' =
             IF Decodes(table) THEN Outcome(s, "ok", table, NoExc, {})
             ELSE Outcome(s, "raise", <<>>, Propagated("ValidationError"), {})
  /\ inflight' = [inflight EXCEPT ![s] = IdleFlight]
  /\ UNCHANGED <<srvVars, ncalls, malformed, notOverlap>>

\* EvictTransaction that leaves the table as it is
EvictNothing(cache, transaction_id) == cache

\* `if path in self._delta_cache: self._delta_cache[path].pop(transaction_id, None)`
EvictTransaction(cache, transaction_id) ==
  IF cache.present
  THEN [cache EXCEPT !.tbl = CachePop(cache.tbl, transaction_id)]
  ELSE cache

\* delete_transaction after the await
ReceiveDelete(s) ==
  /\ inflight[s].phase = "responded"
  /\ inflight[s].fn = "delete_transaction"
  /\ LET path == inflight[s].path
         id == inflight[s].target
         held == \E i \in 1..Len(delta_cache[path].tbl) :
                    delta_cache[path].tbl[i].key = id
     IN /\ delta_cache' =
             [delta_cache EXCEPT ![path] = EvictTransaction(delta_cache[path], id)]
        /\ UNCHANGED server_knowledge
        /\ finished' = Outcome(s, "ok", <<>>, NoExc, IF held THEN {id} ELSE {})
  /\ inflight' = [inflight EXCEPT ![s] = IdleFlight]
  /\ UNCHANGED <<srvVars, ncalls, malformed, notOverlap>>

InitOverlap == InitWith(OverlapKnowledge, OverlapCalls)

NextOverlap ==
  \/ \E s \in Slots, fn \in DeltaGetters : OverlapGet(s, fn)
  \/ \E s \in Slots, id \in Keys : DeleteTransaction(s, id)
  \/ \E c \in DeltaPaths, k \in Keys : OverlapChange(c, k)
  \/ \E c \in DeltaPaths, k \in Keys : ServerMalformed(c, k)
  \/ \E s \in Slots : AnswerGet(s)
  \/ \E s \in Slots : AnswerDelete(s)
  \/ \E s \in Slots, exc \in {StatusErrorExc(500, "error"), TimeoutExc} :
        OverlapRaise(s, exc)
  \/ \E s \in Slots : ReceiveGet(s)
  \/ \E s \in Slots : ReceiveDelete(s)

SpecOverlap == InitOverlap /\ [][NextOverlap]_vars

\* a getter's call that overlapped no other call has ended
SoloGetter(kind) ==
  /\ finished.kind = kind
  /\ finished.fn \in DeltaGetters
  /\ finished.solo

\* C27: when a delta-synced getter raises, the table and the token of its
\* path are what they were before the call
FailedGetterKeepsMirror ==
  SoloGetter("raise") => finished.after = finished.before

\* C28: once fetches of one resource have overlapped and all have ended, a
\* successful fetch that overlaps no other returns exactly the live items
\* the remote service holds
FetchAfterOverlapIsCurrent ==
  (finished.overlapped /\ SoloGetter("ok")) =>
     /\ SeqToSet(finished.list) = finished.full
     /\ Len(finished.list) = Cardinality(finished.full)

\* the keys of a table
KeysOfTable(tbl) == {tbl[i].key : i \in 1..Len(tbl)}

\* a call of delete_transaction has ended
Deleted(kind) ==
  /\ finished.kind = kind
  /\ finished.fn = "delete_transaction"

\* C29: after delete_transaction(id) succeeds the cached transactions table
\* lacks id and its other entries and the token are as before; a later
\* incremental fetch carrying the tombstone of id leaves the table without
\* id; a failed DELETE leaves the table as it was
DeleteEvictsTransaction ==
  /\ Deleted("ok") =>
       finished.target \notin KeysOfTable(finished.after.cache.tbl)
  /\ (Deleted("ok") /\ finished.solo) =>
       /\ finished.after.cache.tbl =
            SelectSeq(finished.before.cache.tbl,
                      LAMBDA item : item.key # finished.target)
       /\ finished.after.cache.present = finished.before.cache.present
       /\ finished.after.knowledge = finished.before.knowledge
  /\ (Deleted("raise") /\ finished.solo) =>
       finished.after = finished.before
  /\ (finished.fn = "get_transactions" /\ finished.lkos # NoKnowledge
        /\ finished.kind # "none" /\ finished.resp_items # <<>>) =>
       \A id \in finished.evicted \cap DeletedKeys(finished.resp_items) :
          id \notin KeysOfTable(finished.after.cache.tbl)

\* a transaction the table held was deleted, and a later incremental fetch
\* carried its tombstone
DeleteEvictsTransactionWitness ==
  /\ finished.fn = "get_transactions"
  /\ finished.kind = "ok"
  /\ finished.lkos # NoKnowledge
  /\ finished.evicted \cap DeletedKeys(finished.resp_items) # {}

(***************************************************************************)
(* SpecWorkflow: the host calls the five transaction tools one after the   *)
(* other; each request of a tool is answered or fails.                     *)
(***************************************************************************)
AddInputs ==
  {[payee |-> p, category_name |-> c, account_name |-> a] :
     p \in {<<"A">>, <<"B">>}, a \in {<<>>, <<"chase">>},
     c \in {<<>>, <<"rent">>, <<"tracker">>, <<"travel">>}}

DescriptionInputs == {<<"A">>, <<"m">>, <<"zzz">>}

CategorizeInputs ==
  {[category_name |-> c, transaction_description |-> d] :
     d \in DescriptionInputs, c \in {<<"rent">>, <<"inflow">>, <<"travel">>}}

RecategorizeInputs ==
  {[transaction_description |-> d, new_category_name |-> c] :
     d \in DescriptionInputs, c \in {<<"rent">>, <<"inflow">>, <<"travel">>}}

\* an update of the memo, the category and the payee, each given or not
UpdateInputs ==
  {[payee |-> p, category_name |-> c, amount |-> NoValue, date |-> NoValue,
    memo |-> m, approved |-> NoValue, cleared |-> NoValue,
    flag_color |-> NoValue, transaction_description |-> d] :
     d \in DescriptionInputs, m \in {NoValue, Some(<<"m">>)},
     c \in {NoValue, Some(<<"rent">>), Some(<<"inflow">>), Some(<<"travel">>)},
     p \in {NoValue, Some(<<"B">>)}}

\* a split of 30.00 in two lines that sum to 20.00, 30.00 or 40.00
SplitInputs ==
  {[payee |-> <<"A">>, amount |-> 3000,
    splits |-> <<SplitItem(c1, a1), SplitItem(c2, a2)>>,
    account_name |-> a] :
     a \in {<<>>, <<"chase">>},
     c1 \in {<<"rent">>, <<"travel">>}, c2 \in {<<"rent">>, <<"tracker">>},
     a1 \in {1000, 2000}, a2 \in {1000, 2000}}

NextWorkflow ==
  \/ \E params \in AddInputs :
       CallTool("ynab_add_transaction", params, "get_accounts")
  \/ \E params \in CategorizeInputs :
       CallTool("ynab_categorize_transaction", params, "get_transactions")
  \/ \E params \in RecategorizeInputs :
       CallTool("ynab_recategorize_transaction", params, "get_transactions")
  \/ \E params \in UpdateInputs : CallUpdateTool(params)
  \/ \E params \in SplitInputs :
       CallTool("ynab_add_split_transaction", params, "get_accounts")
  \/ AwaitReturns
  \/ AwaitRaises
  \/ HostResumes

SpecWorkflow == InitLearnOnly /\ [][NextWorkflow]_vars

\* the tool has ended and the learning store is as it was when the tool
\* was called
StoreAsBefore ==
  wf.before.mappings = mappings /\ wf.before.disk = disk

\* C14: the add-split-transaction tool never learns: when it has ended, by
\* a return or by an error, after any number of requests, the mappings of
\* the learning store, their counts and the file are what they were when
\* it was called.
SplitNeverLearns ==
  wf.fn = "ynab_add_split_transaction" /\ wf.pc = "done" => StoreAsBefore

\* a split of two lines in two categories was created, for a payee the
\* store has no mapping of
SplitNeverLearnsWitness ==
  /\ wf.fn = "ynab_add_split_transaction"
  /\ wf.pc = "done"
  /\ wf.outcome = [kind |-> "return", value |-> "split created"]
  /\ wf.wrote
  /\ wf.params.splits[1].category_name # wf.params.splits[2].category_name
  /\ ~HasKey(mappings, PayeeKey(wf.params.payee))

\* C15: the add, categorize, recategorize and update tools change the
\* learning store only after their write succeeded: when the tool has
\* ended without a successful create or update request (the request
\* failed, a resolution failed before it, or nothing was to be written)
\* the store is as it was when the tool was called.
LearnsOnlyAfterWrite ==
  /\ wf.fn \in {"ynab_add_transaction", "ynab_categorize_transaction",
                "ynab_recategorize_transaction", "ynab_update_transaction"}
  /\ wf.pc = "done"
  /\ ~wf.wrote
  => StoreAsBefore

\* the update request of a tool that would have learned failed
LearnsOnlyAfterWriteWitness ==
  /\ wf.fn = "ynab_categorize_transaction"
  /\ wf.pc = "done"
  /\ wf.outcome = [kind |-> "raise", value |-> "YNABError"]
  /\ Len(wf.requests) = 3
  /\ wf.requests[3].method = "PATCH"
  /\ wf.matched # NoValue
  /\ wf.matched[1].payee_name # NoValue
  /\ wf.category # NoValue

\* C20: a validation failure of the caller's input (split amounts that do
\* not sum to the total, an update that names no field) is raised before
\* any request of the invocation reaches the service.
ValidationBeforeAnyRequest ==
  wf.outcome.kind = "raise"
  /\ wf.outcome.value \in {"ValueError", "ValidationError"}
  => wf.requests = <<>>

(***************************************************************************)
(* SpecTool: the host calls tools wrapped by handle_tool_errors.           *)
(***************************************************************************)
NextTool ==
  \/ \E fn \in ToolNames : InvokeTool(fn)
  \/ \E text \in {"formatted accounts", "formatted detail"} :
        ToolReturns(Str(<<text>>))
  \/ \E exc \in ToolExceptions : ToolRaises(exc)

SpecTool == InitLearnOnly /\ [][NextTool]_vars

\* C8: whatever the wrapped function does, the host gets a string: the
\* function's own result when it returns, an error string when it raises;
\* no exception reaches the host.
ToolAlwaysReturnsString ==
  tool.phase = "returned"
    => /\ tool.result.kind = "return"
       /\ tool.result.value.type = "str"
       /\ tool.outcome.kind = "return" => tool.result.value = tool.outcome.value
       /\ tool.outcome.kind = "raise" => Len(tool.result.value.parts) >= 1

\* the wrapped function raised an exception no specific clause names, and
\* the host got the string of the last clause
ToolAlwaysReturnsStringWitness ==
  /\ tool.phase = "returned"
  /\ tool.outcome.kind = "raise"
  /\ tool.outcome.exc.cls = "KeyError"
  /\ tool.result.kind = "return"
  /\ tool.result.value.parts[1] = "Unexpected error: "
  /\ errorLog # <<>>

====
